---- MODULE Spec2Model ----
(***************************************************************************)
(* Model of the joltage-configuration solver of the day 10 puzzle:         *)
(* exact rational arithmetic (Fraction), construction and row reduction of *)
(* the augmented matrix, per-button upper bounds, and the depth-first      *)
(* search over the free variables (minPressesForJoltage).                  *)
(*                                                                         *)
(* Indexing: the source indexes counters, buttons, rows, columns and       *)
(* search positions from 0; the model indexes them from 1 (TLA+ sequences).*)
(* "No pivot" stays -1 as in the source.  minSuffix/maxSuffix have         *)
(* freeCount + 1 entries in both; entry idx of the model is entry idx - 1  *)
(* of the source.                                                          *)
(***************************************************************************)
EXTENDS Integers, Sequences, FiniteSets, TLC

\* ---------------------------------------------------------------- bounds
MaxCounters == 3
MaxButtons == 3
MaxTarget == 2

\* The input lines of parseInput: lights of the indicator diagram, items of
\* the joltage list, button groups, items of a button group, lines.
MaxLights == 1
MaxJoltageItems == 2
MaxButtonGroups == 2
MaxButtonItems == 1
MaxLines == 2

\* The machine lists of solve: lights (and counters), buttons, targets,
\* machines.
SolveMaxLights == 2
SolveMaxButtons == 2
SolveMaxTarget == 1
SolveMaxMachines == 2

\* The machines of the specifications that make several calls.
CallMaxCounters == 1
CallMaxButtons == 2
CallMaxTarget == 2
\* Number of calls of minPressesForJoltage one caller makes.
MaxCalls == 3

\* The input line of the visualization: lights of the indicator diagram (and
\* items of the joltage list), button groups, items of a button group.
ReplayMaxLights == 2
ReplayMaxButtonGroups == 2
ReplayMaxButtonItems == 2

\* The Fraction class on its own: the largest absolute value of an integer
\* argument, and of the numerator and the denominator of an operand.
MaxPart == 3

\* ------------------------------------------------------------- Fraction
\* The value a throwing Fraction constructor / div stands for: no Fraction
\* instance has a zero denominator.
FractionError == [num |-> 0, den |-> 0]

abs(value) == IF value < 0 THEN -value ELSE value

RECURSIVE gcdLoop(_, _)
gcdLoop(x, y) == IF y = 0 THEN x ELSE gcdLoop(y, x % y)

gcd(a, b) == gcdLoop(abs(a), abs(b))

\* Variant of Fraction that takes a zero denominator for the value zero.
FractionCoercing(num, den) ==
  IF den = 0 \/ num = 0 THEN [num |-> 0, den |-> 1]
  ELSE LET numerator == IF den < 0 THEN -num ELSE num
           denominator == IF den < 0 THEN -den ELSE den
           gcdValue == gcd(abs(numerator), denominator)
       IN [num |-> numerator \div gcdValue, den |-> denominator \div gcdValue]

\* Variant of Fraction that does not divide by the greatest common divisor.
FractionUnreduced(num, den) ==
  IF den = 0 THEN FractionError
  ELSE IF num = 0 THEN [num |-> 0, den |-> 1]
  ELSE [num |-> IF den < 0 THEN -num ELSE num,
        den |-> IF den < 0 THEN -den ELSE den]

Fraction(num, den) ==
  IF den = 0 THEN FractionError
  ELSE IF num = 0 THEN [num |-> 0, den |-> 1]
  ELSE LET numerator == IF den < 0 THEN -num ELSE num
           denominator == IF den < 0 THEN -den ELSE den
           gcdValue == gcd(abs(numerator), denominator)
       IN [num |-> numerator \div gcdValue, den |-> denominator \div gcdValue]

ZERO == Fraction(0, 1)
ONE == Fraction(1, 1)

fromInt(value) == Fraction(value, 1)

add(this, other) ==
  Fraction(this.num * other.den + other.num * this.den, this.den * other.den)

sub(this, other) ==
  Fraction(this.num * other.den - other.num * this.den, this.den * other.den)

mul(this, other) == Fraction(this.num * other.num, this.den * other.den)

div(this, other) ==
  IF other.num = 0 THEN FractionError
  ELSE Fraction(this.num * other.den, this.den * other.num)

mulInt(this, value) == Fraction(this.num * value, this.den)

isZero(this) == this.num = 0

isInteger(this) == this.den = 1

\* Variant of compare that compares the numerators alone.
compareNumerators(this, other) ==
  IF this.num < other.num THEN -1 ELSE IF this.num > other.num THEN 1 ELSE 0

compare(this, other) ==
  LET left == this.num * other.den
      right == other.num * this.den
  IN IF left < right THEN -1 ELSE IF left > right THEN 1 ELSE 0

\* Number(num) / Number(den): the float quotient.  It is exact when the
\* denominator divides the numerator (and both are below 2^53, as every
\* integer of the bounded model is); the solver calls it only then.
toNumber(this) == this.num \div this.den

\* ------------------------------------------------- matrix construction
buildAugmentedMatrix(buttonCounterSets, counterCount, targets) ==
  LET cols == Len(buttonCounterSets)
  IN [row \in 1..counterCount |->
        [col \in 1..(cols + 1) |->
           IF col <= cols
             THEN (IF row \in buttonCounterSets[col] THEN ONE ELSE ZERO)
             ELSE fromInt(targets[row])]]

\* ------------------------------------------------------- row reduction
\* The while loop of rref: the first row at or below `from` whose entry in
\* `col` is non-zero, or rowCount + 1.
\* Variant of findPivotRow that takes the current row, whatever its entry.
findPivotRowCurrent(matrix, pivotRow, col) == pivotRow

RECURSIVE findPivotRow(_, _, _)
findPivotRow(matrix, pivotRow, col) ==
  IF pivotRow <= Len(matrix) /\ isZero(matrix[pivotRow][col])
    THEN findPivotRow(matrix, pivotRow + 1, col)
    ELSE pivotRow

\* Variant of normalizeRow that leaves the pivot row as it is.
normalizeRowKept(rowVec, col) == rowVec

\* The pivot row after the swap, divided by the pivot value from `col` on.
normalizeRow(rowVec, col) ==
  LET pivotValue == rowVec[col]
  IN [j \in 1..Len(rowVec) |->
        IF j >= col THEN div(rowVec[j], pivotValue) ELSE rowVec[j]]

\* One other row with the pivot column eliminated.
eliminateRow(rowVec, pivotVec, col) ==
  LET factor == rowVec[col]
  IN IF isZero(factor) THEN rowVec
     ELSE [j \in 1..Len(rowVec) |->
             IF j >= col THEN sub(rowVec[j], mul(factor, pivotVec[j]))
             ELSE rowVec[j]]

\* One iteration of the column loop of rref, then the rest of the loop.
RECURSIVE rrefFrom(_, _, _, _, _)
rrefFrom(matrix, pivotColumnsByRow, currentRow, col, variableCount) ==
  LET rowCount == Len(matrix) IN
  IF ~(col <= variableCount /\ currentRow <= rowCount)
    THEN [matrix |-> matrix, pivotColumnsByRow |-> pivotColumnsByRow]
  ELSE
    LET pivotRow == findPivotRow(matrix, currentRow, col) IN
    IF pivotRow = rowCount + 1
      THEN rrefFrom(matrix, pivotColumnsByRow, currentRow, col + 1, variableCount)
    ELSE
      LET swapped == [matrix EXCEPT ![currentRow] = matrix[pivotRow],
                                    ![pivotRow] = matrix[currentRow]]
          pivotVec == normalizeRow(swapped[currentRow], col)
          reduced == [r \in 1..rowCount |->
                        IF r = currentRow THEN pivotVec
                        ELSE eliminateRow(swapped[r], pivotVec, col)]
      IN rrefFrom(reduced, [pivotColumnsByRow EXCEPT ![currentRow] = col],
                  currentRow + 1, col + 1, variableCount)

rref(matrix, variableCount) ==
  rrefFrom(matrix, [r \in 1..Len(matrix) |-> -1], 1, 1, variableCount)

\* ------------------------------------------------------- upper bounds
RECURSIVE minTarget(_, _)
minTarget(counters, targets) ==
  LET index == CHOOSE i \in counters : TRUE
      rest == counters \ {index}
  IN IF rest = {} THEN targets[index]
     ELSE LET m == minTarget(rest, targets)
          IN IF targets[index] < m THEN targets[index] ELSE m

\* Variant of computeVariableUpperBounds that takes the least target of all
\* the counters, not only of those the button affects.
computeVariableUpperBoundsOfAllCounters(buttonCounterSets, targets) ==
  [b \in 1..Len(buttonCounterSets) |->
     IF buttonCounterSets[b] = {} THEN 0
     ELSE minTarget(1..Len(targets), targets)]

computeVariableUpperBounds(buttonCounterSets, targets) ==
  [b \in 1..Len(buttonCounterSets) |->
     IF buttonCounterSets[b] = {} THEN 0
     ELSE minTarget(buttonCounterSets[b], targets)]

\* --------------------------------------- pivot rows and free variables
hasCoefficients(rowVec, variableCount) ==
  \E c \in 1..variableCount : ~isZero(rowVec[c])

\* Variant of isInfeasibleRow that takes only a positive right-hand side for
\* infeasible.
isInfeasibleRowPositiveOnly(rowVec, variableCount) ==
  /\ ~hasCoefficients(rowVec, variableCount)
  /\ compare(rowVec[variableCount + 1], ZERO) > 0

\* The test that makes minPressesForJoltage throw for a reduced row.
isInfeasibleRow(rowVec, variableCount) ==
  ~hasCoefficients(rowVec, variableCount) /\ ~isZero(rowVec[variableCount + 1])

makePivotRow(mat, pivots, bounds, row, variableCount) ==
  LET pivotCol == pivots[row]
      rhs == mat[row][variableCount + 1]
  IN [pivotCol |-> pivotCol,
      rhs |-> rhs,
      minAllowed |-> sub(rhs, fromInt(bounds[pivotCol])),
      maxAllowed |-> rhs,
      coeffs |-> <<>>,
      minSuffix |-> <<>>,
      maxSuffix |-> <<>>,
      sourceRow |-> row]

\* The rows with a pivot, in row order (the row loop of minPressesForJoltage).
RECURSIVE collectPivotRows(_, _, _, _, _)
collectPivotRows(mat, pivots, bounds, row, variableCount) ==
  IF row > Len(mat) THEN <<>>
  ELSE IF pivots[row] = -1
    THEN collectPivotRows(mat, pivots, bounds, row + 1, variableCount)
  ELSE <<makePivotRow(mat, pivots, bounds, row, variableCount)>>
         \o collectPivotRows(mat, pivots, bounds, row + 1, variableCount)

pivotColumnSetOf(rows) == {rows[i].pivotCol : i \in 1..Len(rows)}

RECURSIVE freeColumnsFrom(_, _, _)
freeColumnsFrom(pivotColumnSet, col, variableCount) ==
  IF col > variableCount THEN <<>>
  ELSE IF col \in pivotColumnSet
    THEN freeColumnsFrom(pivotColumnSet, col + 1, variableCount)
  ELSE <<col>> \o freeColumnsFrom(pivotColumnSet, col + 1, variableCount)

\* The comparator of freeVarInfos.sort: ascending bound, then ascending column.
infoBefore(a, b) ==
  IF a.bound = b.bound THEN a.col < b.col ELSE a.bound < b.bound

\* The comparator is a strict total order on the infos (their columns are
\* distinct), so the sorted array is the same for every sorting algorithm.
RECURSIVE sortInfos(_)
sortInfos(infos) ==
  IF infos = {} THEN <<>>
  ELSE LET first == CHOOSE a \in infos : \A b \in infos \ {a} : infoBefore(a, b)
       IN <<first>> \o sortInfos(infos \ {first})

freeVarInfosOf(freeColumns, bounds) ==
  sortInfos({[col |-> freeColumns[idx], bound |-> bounds[freeColumns[idx]],
              originalIndex |-> idx] : idx \in 1..Len(freeColumns)})

\* Variant of minContribution without the test of the sign of the coefficient.
minContributionAnySign(coeff, bound) ==
  IF ~isZero(coeff) /\ bound > 0 THEN mulInt(coeff, bound) ELSE ZERO

minContribution(coeff, bound) ==
  IF ~isZero(coeff) /\ bound > 0 /\ compare(coeff, ZERO) < 0
    THEN mulInt(coeff, bound) ELSE ZERO

maxContribution(coeff, bound) ==
  IF ~isZero(coeff) /\ bound > 0 /\ compare(coeff, ZERO) > 0
    THEN mulInt(coeff, bound) ELSE ZERO

RECURSIVE minSuffixAt(_, _, _)
minSuffixAt(coeffs, bounds, idx) ==
  IF idx = Len(coeffs) + 1 THEN ZERO
  ELSE add(minContribution(coeffs[idx], bounds[idx]),
           minSuffixAt(coeffs, bounds, idx + 1))

RECURSIVE maxSuffixAt(_, _, _)
maxSuffixAt(coeffs, bounds, idx) ==
  IF idx = Len(coeffs) + 1 THEN ZERO
  ELSE add(maxContribution(coeffs[idx], bounds[idx]),
           maxSuffixAt(coeffs, bounds, idx + 1))

\* A pivot row with its coefficients of the ordered free variables and the
\* suffix sums of their least and greatest contributions.
fillPivotRow(row, mat, columns, bounds) ==
  LET coeffs == [i \in 1..Len(columns) |-> mat[row.sourceRow][columns[i]]]
  IN [row EXCEPT
        !.coeffs = coeffs,
        !.minSuffix = [idx \in 1..(Len(columns) + 1) |-> minSuffixAt(coeffs, bounds, idx)],
        !.maxSuffix = [idx \in 1..(Len(columns) + 1) |-> maxSuffixAt(coeffs, bounds, idx)]]

\* --------------------------------------------------------------- state
VARIABLES
  machine,               \* the caller's machine: joltageTargets, buttonCounterSets
  pc,                    \* position in minPressesForJoltage
  matrix,                \* the augmented matrix after rref
  pivotColumnsByRow,     \* rref's pivot column of each row, -1 for none
  upperBounds,           \* computeVariableUpperBounds' result
  pivotRows,             \* the PivotRow records
  freeBounds,            \* bound of each ordered free variable
  orderedColumns,        \* button column of each ordered free variable
  assignedContribution,  \* per pivot row, contribution of the assigned free variables
  currentPresses,        \* per button, the value assigned on the current branch
  best,                  \* least total found so far (finite = FALSE: +Infinity)
  bestPresses,           \* the press vector of best (defined = FALSE: undefined)
  stack,                 \* the active dfs calls, innermost last
  dfsCalls,              \* number of dfs calls made so far
  result,                \* outcome of the call
  converted,             \* the values toNumber was called on during the call, in order
  statics,               \* the objects Fraction.ZERO and Fraction.ONE
  history,               \* the finished calls of the caller: machine and outcome
  parked,                \* the locals of a second invocation that is not running
  solving,               \* the state of solve around the calls
  parsing,               \* the input text of parseInput and what it returned
  arith,                 \* a use of the Fraction class on its own: operands and outcome
  twin,                  \* outcome of the number-returning minPressesForJoltage
  replay                 \* the visualization: its machine and its joltage frames

vars == <<machine, pc, matrix, pivotColumnsByRow, upperBounds, pivotRows,
          freeBounds, orderedColumns, assignedContribution, currentPresses,
          best, bestPresses, stack, dfsCalls, result, converted,
          statics, history, parked, solving, parsing, arith, twin, replay>>

\* What is outside one call of minPressesForJoltage.
envVars == <<statics, history, parked, solving, parsing, arith, twin, replay>>

\* The error messages minPressesForJoltage throws.
ErrNoButtons == "Machine has joltage requirements but no buttons to configure them"
ErrCannotSatisfy == "Machine cannot satisfy joltage requirements with available buttons"
ErrNonInteger == "Machine requires non-integer number of button presses"
ErrViolatesBounds == "Machine joltage solution violates button bounds"
ErrFailedToFind == "Failed to find minimal joltage configuration"

Pending == [status |-> "pending", totalPresses |-> 0, buttonPresses |-> <<>>, error |-> ""]
Returned(total, presses) ==
  [status |-> "returned", totalPresses |-> total, buttonPresses |-> presses, error |-> ""]
Thrown(message) ==
  [status |-> "thrown", totalPresses |-> 0, buttonPresses |-> <<>>, error |-> message]

POSITIVE_INFINITY == [finite |-> FALSE, value |-> 0]
finiteBest(value) == [finite |-> TRUE, value |-> value]
undefined == [defined |-> FALSE, presses |-> <<>>]

zeroFill(length) == [i \in 1..length |-> 0]

\* The machines the solver is called with: up to MaxCounters counters with
\* targets 0..MaxTarget and up to MaxButtons buttons, each a set of valid
\* counter indices (possibly empty).
MachinesOf(nc, nb) ==
  [joltageTargets : [1..nc -> 0..MaxTarget],
   buttonCounterSets : [1..nb -> SUBSET (1..nc)]]

\* The machines with one button more than MaxButtons on MaxCounters counters
\* and every button wired to two counters or more: among them are the smallest
\* machines whose reduced system has fractional coefficients.
DenseMachines ==
  [joltageTargets : [1..MaxCounters -> 0..MaxTarget],
   buttonCounterSets :
     [1..(MaxButtons + 1) -> {s \in SUBSET (1..MaxCounters) : Cardinality(s) >= 2}]]

\* minPressesForJoltage is called directly, outside solve and parseInput.
NotSolving == [status |-> "none"]
NoArithmetic == [status |-> "none"]
\* No visualization is mounted.
NotReplaying == [status |-> "none"]
\* The number-returning minPressesForJoltage has not been called.
NotCalled == [status |-> "none", value |-> 0, error |-> ""]
NotParsing == [status |-> "none"]

targets == machine.joltageTargets
buttonSets == machine.buttonCounterSets
freeCount == Len(orderedColumns)

\* The locals of a call that has not begun.
InitLocals ==
  /\ matrix = <<>>
  /\ pivotColumnsByRow = <<>>
  /\ upperBounds = <<>>
  /\ pivotRows = <<>>
  /\ freeBounds = <<>>
  /\ orderedColumns = <<>>
  /\ assignedContribution = <<>>
  /\ currentPresses = <<>>
  /\ best = POSITIVE_INFINITY
  /\ bestPresses = undefined
  /\ stack = <<>>
  /\ dfsCalls = 0
  /\ result = Pending
  /\ converted = <<>>

InitEnv ==
  /\ statics = [ZERO |-> ZERO, ONE |-> ONE]
  /\ arith = NoArithmetic
  /\ twin = NotCalled
  /\ replay = NotReplaying
  /\ history = <<>>
  /\ parked = <<>>
  /\ solving = NotSolving
  /\ parsing = NotParsing

Init ==
  /\ \E nc \in 0..MaxCounters, nb \in 0..MaxButtons : machine \in MachinesOf(nc, nb)
  /\ pc = "call"
  /\ InitLocals
  /\ InitEnv

\* The call of a machine of Init, of a dense machine, or of a machine with one
\* button more than MaxButtons on two counters (the smallest machines with a
\* pivot row whose free variables have coefficients of both signs).
DenseInit ==
  /\ \/ \E nc \in 0..MaxCounters, nb \in 0..MaxButtons : machine \in MachinesOf(nc, nb)
     \/ machine \in DenseMachines
     \/ machine \in MachinesOf(2, MaxButtons + 1)
  /\ pc = "call"
  /\ InitLocals
  /\ InitEnv

searchVars == <<assignedContribution, currentPresses, best, bestPresses, stack, dfsCalls>>
prepVars == <<pivotRows, freeBounds, orderedColumns>>
rrefVars == <<matrix, pivotColumnsByRow, upperBounds>>

\* ------------------------------------------- entry of minPressesForJoltage
\* targets.length === 0
ReturnNoCounters ==
  /\ pc = "call"
  /\ Len(targets) = 0
  /\ result' = Returned(0, zeroFill(Len(buttonSets)))
  /\ pc' = "done"
  /\ UNCHANGED <<machine, rrefVars, prepVars, searchVars>>
  /\ UNCHANGED envVars
  /\ UNCHANGED converted

\* Variant of allTargetsZero with `some` for `every`.
someTargetZero(ts) == \E i \in 1..Len(ts) : ts[i] = 0

\* Variant of allTargetsZero with `!==` for `===`.
allTargetsNonZero(ts) == \A i \in 1..Len(ts) : ts[i] # 0

allTargetsZero(ts) == \A i \in 1..Len(ts) : ts[i] = 0

\* buttonSets.length === 0
NoButtons ==
  /\ pc = "call"
  /\ Len(targets) # 0
  /\ Len(buttonSets) = 0
  /\ result' = IF allTargetsZero(targets) THEN Returned(0, <<>>)
               ELSE Thrown(ErrNoButtons)
  /\ pc' = "done"
  /\ UNCHANGED <<machine, rrefVars, prepVars, searchVars>>
  /\ UNCHANGED envVars
  /\ UNCHANGED converted

\* buildAugmentedMatrix, rref, computeVariableUpperBounds
\* Variant of machineAfterReduce in which the last column of the matrix is the
\* caller's target array itself, so that the row operations write to it.
machineSharingTargets(m, reducedMatrix, variableCount) ==
  [m EXCEPT !.joltageTargets =
     [r \in 1..Len(reducedMatrix) |-> toNumber(reducedMatrix[r][variableCount + 1])]]

\* The caller's machine after buildAugmentedMatrix and rref: the matrix is made
\* of new rows and new Fraction cells, and rref writes to those alone.
machineAfterReduce(m, reducedMatrix, variableCount) == m

Reduce ==
  /\ pc = "call"
  /\ Len(targets) # 0
  /\ Len(buttonSets) # 0
  /\ LET augmented == buildAugmentedMatrix(buttonSets, Len(targets), targets)
         reduced == rref(augmented, Len(buttonSets))
     IN /\ matrix' = reduced.matrix
        /\ pivotColumnsByRow' = reduced.pivotColumnsByRow
        /\ machine' = machineAfterReduce(machine, reduced.matrix, Len(buttonSets))
  /\ upperBounds' = computeVariableUpperBounds(buttonSets, targets)
  /\ pc' = "reduced"
  /\ UNCHANGED <<prepVars, searchVars, result>>
  /\ UNCHANGED envVars
  /\ UNCHANGED converted

\* ------------------------------------------ after the row reduction
someInfeasibleRow(mat, variableCount) ==
  \E row \in 1..Len(mat) : isInfeasibleRow(mat[row], variableCount)

\* The row loop throws at the first row without coefficients and with a
\* non-zero right-hand side.
ThrowInfeasible ==
  /\ pc = "reduced"
  /\ someInfeasibleRow(matrix, Len(buttonSets))
  /\ result' = Thrown(ErrCannotSatisfy)
  /\ pc' = "done"
  /\ UNCHANGED <<machine, rrefVars, prepVars, searchVars>>
  /\ UNCHANGED envVars
  /\ UNCHANGED converted

\* Variant of noPivotPlan with the empty press vector of the branch without
\* buttons.
noPivotPlanEmpty(buttonCount) == Returned(0, <<>>)

\* The value returned when there is no pivot row.
noPivotPlan(buttonCount) == Returned(0, zeroFill(buttonCount))

\* pivotRows.length === 0
ReturnNoPivotRows ==
  /\ pc = "reduced"
  /\ ~someInfeasibleRow(matrix, Len(buttonSets))
  /\ collectPivotRows(matrix, pivotColumnsByRow, upperBounds, 1, Len(buttonSets)) = <<>>
  /\ result' = noPivotPlan(Len(buttonSets))
  /\ pc' = "done"
  /\ UNCHANGED <<machine, rrefVars, prepVars, searchVars>>
  /\ UNCHANGED envVars
  /\ UNCHANGED converted

\* freeVarInfos, freeBounds, orderedColumns, and the pivot rows' coeffs and
\* suffix sums.
Prepare ==
  /\ pc = "reduced"
  /\ ~someInfeasibleRow(matrix, Len(buttonSets))
  /\ LET rows == collectPivotRows(matrix, pivotColumnsByRow, upperBounds, 1, Len(buttonSets))
         freeColumns == freeColumnsFrom(pivotColumnSetOf(rows), 1, Len(buttonSets))
         freeVarInfos == freeVarInfosOf(freeColumns, upperBounds)
         bounds == [i \in 1..Len(freeVarInfos) |-> freeVarInfos[i].bound]
         order == [i \in 1..Len(freeVarInfos) |-> freeVarInfos[i].originalIndex]
         columns == [i \in 1..Len(order) |-> freeColumns[order[i]]]
     IN /\ rows # <<>>
        /\ freeBounds' = bounds
        /\ orderedColumns' = columns
        /\ pivotRows' = [i \in 1..Len(rows) |-> fillPivotRow(rows[i], matrix, columns, bounds)]
  /\ pc' = "prepared"
  /\ UNCHANGED <<machine, rrefVars, searchVars, result>>
  /\ UNCHANGED envVars
  /\ UNCHANGED converted

\* ------------------------------------------------- no free variable
\* Variant of uniqueRowInBounds without the test for a negative value.
uniqueRowInBoundsNoLower(presses, bound) == ~(presses > bound)

\* Variant of uniqueRowIsInteger that accepts every value.
uniqueRowIsIntegerAlways(row) == TRUE

\* The integrality test of one pivot row in the freeCount === 0 branch.
uniqueRowIsInteger(row) == isInteger(row.rhs)

\* The test of one pivot row in the freeCount === 0 branch.
uniqueRowInBounds(presses, bound) == ~(presses < 0 \/ presses > bound)

\* The loop over the pivot rows in the freeCount === 0 branch, from rowIdx on.
RECURSIVE uniqueFrom(_, _, _, _, _)
uniqueFrom(rows, bounds, rowIdx, buttonPresses, total) ==
  IF rowIdx > Len(rows) THEN Returned(total, buttonPresses)
  ELSE LET row == rows[rowIdx] IN
    IF ~uniqueRowIsInteger(row) THEN Thrown(ErrNonInteger)
    ELSE LET presses == toNumber(row.rhs) IN
      IF ~uniqueRowInBounds(presses, bounds[row.pivotCol])
        THEN Thrown(ErrViolatesBounds)
      ELSE uniqueFrom(rows, bounds, rowIdx + 1,
                      [buttonPresses EXCEPT ![row.pivotCol] = presses],
                      total + presses)

\* The values the loop of the freeCount === 0 branch calls toNumber on, from
\* rowIdx on: the loop ends at the first row that throws.
RECURSIVE uniqueConversions(_, _, _)
uniqueConversions(rows, bounds, rowIdx) ==
  IF rowIdx > Len(rows) THEN <<>>
  ELSE LET row == rows[rowIdx] IN
    IF ~uniqueRowIsInteger(row) THEN <<>>
    ELSE <<row.rhs>> \o
           (IF ~uniqueRowInBounds(toNumber(row.rhs), bounds[row.pivotCol]) THEN <<>>
            ELSE uniqueConversions(rows, bounds, rowIdx + 1))

SolveUnique ==
  /\ pc = "prepared"
  /\ freeCount = 0
  /\ result' = uniqueFrom(pivotRows, upperBounds, 1, zeroFill(Len(buttonSets)), 0)
  /\ converted' = converted \o uniqueConversions(pivotRows, upperBounds, 1)
  /\ pc' = "done"
  /\ UNCHANGED <<machine, rrefVars, prepVars, searchVars>>
  /\ UNCHANGED envVars

\* --------------------------------------------------------------- dfs
frame(index, partialSum) ==
  [index |-> index, partialSum |-> partialSum, value |-> 0, maxValue |-> 0,
   at |-> "enter"]

top == stack[Len(stack)]
pop == SubSeq(stack, 1, Len(stack) - 1)
replaceTop(f) == [stack EXCEPT ![Len(stack)] = f]

\* Variant of bestAtSearchStart that keeps what the memory of best held.
bestAtSearchStartKept(stale) == stale

\* let best = Number.POSITIVE_INFINITY: the declaration gives the best of the
\* new call its value, whatever an earlier call left.
bestAtSearchStart(stale) == POSITIVE_INFINITY

\* dfs(0, 0)
StartSearch ==
  /\ pc = "prepared"
  /\ freeCount # 0
  /\ assignedContribution' = [rowIdx \in 1..Len(pivotRows) |-> statics.ZERO]
  /\ currentPresses' = zeroFill(Len(buttonSets))
  /\ best' = bestAtSearchStart(best)
  /\ bestPresses' = undefined
  /\ stack' = <<frame(1, 0)>>
  /\ dfsCalls' = 1
  /\ pc' = "search"
  /\ UNCHANGED <<machine, rrefVars, prepVars, result>>
  /\ UNCHANGED envVars
  /\ UNCHANGED converted

\* The implied press count of a pivot row at a leaf.
leafPivotValue(row, assigned) == sub(row.rhs, assigned)

\* Variant of leafRowOk without the test for an integer.
leafRowOkAnyFraction(row, assigned, bounds) ==
  LET pivotValue == leafPivotValue(row, assigned)
  IN ~(toNumber(pivotValue) < 0 \/ toNumber(pivotValue) > bounds[row.pivotCol])

\* A leaf passes a pivot row: the implied value is an integer within bounds.
leafRowOk(row, assigned, bounds) ==
  LET pivotValue == leafPivotValue(row, assigned)
  IN /\ isInteger(pivotValue)
     /\ ~(toNumber(pivotValue) < 0 \/ toNumber(pivotValue) > bounds[row.pivotCol])

leafFeasible(rows, assigned, bounds) ==
  \A rowIdx \in 1..Len(rows) : leafRowOk(rows[rowIdx], assigned[rowIdx], bounds)

RECURSIVE sumSeq(_)
sumSeq(s) == IF s = <<>> THEN 0 ELSE Head(s) + sumSeq(Tail(s))

\* Variant of leafTotal that leaves the pivot values out of the total.
leafTotalWithoutPivots(rows, assigned, partialSum) == partialSum

\* total: partialSum plus the implied pivot values.
leafTotal(rows, assigned, partialSum) ==
  partialSum
    + sumSeq([rowIdx \in 1..Len(rows) |->
                toNumber(leafPivotValue(rows[rowIdx], assigned[rowIdx]))])

\* Variant of leafCandidate that leaves the pivot assignments out.
leafCandidateWithoutPivots(rows, assigned, presses) == presses

\* candidate: currentPresses with the pivot assignments written in.
leafCandidate(rows, assigned, presses) ==
  [col \in 1..Len(presses) |->
     IF \E rowIdx \in 1..Len(rows) : rows[rowIdx].pivotCol = col
       THEN LET rowIdx == CHOOSE r \in 1..Len(rows) : rows[r].pivotCol = col
            IN toNumber(leafPivotValue(rows[rowIdx], assigned[rowIdx]))
       ELSE presses[col]]

\* Variant of improves that keeps every feasible leaf, without comparing its
\* total with best.
improvesWithoutComparing(total, b) == TRUE

\* total < best
improves(total, b) == ~b.finite \/ total < b.value

\* Variant of leafConversions that converts the pivot value of a row before
\* it is known to be an integer.
RECURSIVE leafConversionsUntested(_, _, _, _)
leafConversionsUntested(rows, assigned, bounds, rowIdx) ==
  IF rowIdx > Len(rows) THEN <<>>
  ELSE LET pivotValue == leafPivotValue(rows[rowIdx], assigned[rowIdx]) IN
    <<pivotValue>> \o
      (IF ~leafRowOk(rows[rowIdx], assigned[rowIdx], bounds) THEN <<>>
       ELSE leafConversionsUntested(rows, assigned, bounds, rowIdx + 1))

\* The values the row loop of a leaf calls toNumber on, from rowIdx on: the
\* loop returns at the first row whose value is not an integer (before the
\* conversion) or is out of bounds (after it).
RECURSIVE leafConversions(_, _, _, _)
leafConversions(rows, assigned, bounds, rowIdx) ==
  IF rowIdx > Len(rows) THEN <<>>
  ELSE LET pivotValue == leafPivotValue(rows[rowIdx], assigned[rowIdx]) IN
    IF ~isInteger(pivotValue) THEN <<>>
    ELSE <<pivotValue>> \o
           (IF ~leafRowOk(rows[rowIdx], assigned[rowIdx], bounds) THEN <<>>
            ELSE leafConversions(rows, assigned, bounds, rowIdx + 1))

\* index === freeCount
DfsLeaf ==
  /\ pc = "search"
  /\ stack # <<>>
  /\ top.at = "enter"
  /\ top.index = freeCount + 1
  /\ IF /\ leafFeasible(pivotRows, assignedContribution, upperBounds)
        /\ improves(leafTotal(pivotRows, assignedContribution, top.partialSum), best)
       THEN /\ best' = finiteBest(leafTotal(pivotRows, assignedContribution, top.partialSum))
            /\ bestPresses' = [defined |-> TRUE,
                               presses |-> leafCandidate(pivotRows, assignedContribution,
                                                         currentPresses)]
       ELSE UNCHANGED <<best, bestPresses>>
  /\ converted' = converted \o leafConversions(pivotRows, assignedContribution,
                                                 upperBounds, 1)
  /\ stack' = pop
  /\ UNCHANGED <<machine, pc, rrefVars, prepVars, assignedContribution,
                 currentPresses, dfsCalls, result>>
  /\ UNCHANGED envVars

\* The range test of one pivot row once position `index` is assigned.
rowInRange(row, assigned, index) ==
  LET minPossible == add(assigned, row.minSuffix[index + 1])
      maxPossible == add(assigned, row.maxSuffix[index + 1])
  IN /\ compare(maxPossible, row.minAllowed) >= 0
     /\ compare(minPossible, row.maxAllowed) <= 0

constraintsSatisfied(rows, assigned, index) ==
  \A rowIdx \in 1..Len(rows) : rowInRange(rows[rowIdx], assigned[rowIdx], index)

\* bound === 0
DfsZeroBound ==
  /\ pc = "search"
  /\ stack # <<>>
  /\ top.at = "enter"
  /\ top.index <= freeCount
  /\ freeBounds[top.index] = 0
  /\ currentPresses' = [currentPresses EXCEPT ![orderedColumns[top.index]] = 0]
  /\ IF constraintsSatisfied(pivotRows, assignedContribution, top.index)
       THEN /\ stack' = Append(replaceTop([top EXCEPT !.at = "tail"]),
                               frame(top.index + 1, top.partialSum))
            /\ dfsCalls' = dfsCalls + 1
       ELSE /\ stack' = pop
            /\ UNCHANGED dfsCalls
  /\ UNCHANGED <<machine, pc, rrefVars, prepVars, assignedContribution,
                 best, bestPresses, result>>
  /\ UNCHANGED envVars
  /\ UNCHANGED converted

\* return after the recursive call of the bound === 0 branch
DfsZeroBoundReturn ==
  /\ pc = "search"
  /\ stack # <<>>
  /\ top.at = "tail"
  /\ stack' = pop
  /\ UNCHANGED <<machine, pc, rrefVars, prepVars, assignedContribution,
                 currentPresses, best, bestPresses, dfsCalls, result>>
  /\ UNCHANGED envVars
  /\ UNCHANGED converted

minOf(a, b) == IF a < b THEN a ELSE b

\* maxValue of the value loop: the bound, capped by the budget that best leaves;
\* -1 when the loop is not entered.
loopMaxValue(bound, b, partialSum) ==
  IF b.finite
    THEN LET remainingBudget == b.value - partialSum
         IN IF remainingBudget <= 0 THEN -1
            ELSE minOf(bound, remainingBudget - 1)
    ELSE bound

\* bound > 0: compute maxValue; return at once when the budget is used up
DfsLoopEntry ==
  /\ pc = "search"
  /\ stack # <<>>
  /\ top.at = "enter"
  /\ top.index <= freeCount
  /\ freeBounds[top.index] # 0
  /\ LET maxValue == loopMaxValue(freeBounds[top.index], best, top.partialSum)
     IN IF maxValue < 0
          THEN /\ currentPresses' = [currentPresses EXCEPT ![orderedColumns[top.index]] = 0]
               /\ stack' = pop
          ELSE /\ stack' = replaceTop([top EXCEPT !.at = "loop", !.value = 0,
                                                  !.maxValue = maxValue])
               /\ UNCHANGED currentPresses
  /\ UNCHANGED <<machine, pc, rrefVars, prepVars, assignedContribution,
                 best, bestPresses, dfsCalls, result>>
  /\ UNCHANGED envVars
  /\ UNCHANGED converted

\* assignedContribution after adding coeff * value of position `index`
addContribution(assigned, rows, index, value) ==
  IF value > 0
    THEN [rowIdx \in 1..Len(rows) |->
            IF ~isZero(rows[rowIdx].coeffs[index])
              THEN add(assigned[rowIdx], mulInt(rows[rowIdx].coeffs[index], value))
              ELSE assigned[rowIdx]]
    ELSE assigned

\* Variant of subContribution that takes nothing back.
subContributionKept(assigned, rows, index, value) == assigned

\* assignedContribution after taking coeff * value of position `index` back
subContribution(assigned, rows, index, value) ==
  IF value > 0
    THEN [rowIdx \in 1..Len(rows) |->
            IF ~isZero(rows[rowIdx].coeffs[index])
              THEN sub(assigned[rowIdx], mulInt(rows[rowIdx].coeffs[index], value))
              ELSE assigned[rowIdx]]
    ELSE assigned

\* Variant of feasible that also gives up a row whose reachable range only
\* touches the allowed range at one end.
feasibleStrictly(rows, assigned, index) ==
  ~\E rowIdx \in 1..Len(rows) :
     LET row == rows[rowIdx]
         minPossible == add(assigned[rowIdx], row.minSuffix[index + 1])
         maxPossible == add(assigned[rowIdx], row.maxSuffix[index + 1])
     IN \/ compare(maxPossible, row.minAllowed) <= 0
        \/ compare(minPossible, row.maxAllowed) >= 0

\* feasible, as computed by the loop body
feasible(rows, assigned, index) ==
  ~\E rowIdx \in 1..Len(rows) :
     LET row == rows[rowIdx]
         minPossible == add(assigned[rowIdx], row.minSuffix[index + 1])
         maxPossible == add(assigned[rowIdx], row.maxSuffix[index + 1])
     IN \/ compare(maxPossible, row.minAllowed) < 0
        \/ compare(minPossible, row.maxAllowed) > 0

\* Variant of nextValue that leaves the loop variable as it is.
nextValueStuck(value) == value

\* value++ of the value loop
nextValue(value) == value + 1

\* one iteration of the value loop, up to the recursive call (if feasible) or
\* to the end of the iteration (if not)
DfsIterate ==
  /\ pc = "search"
  /\ stack # <<>>
  /\ top.at = "loop"
  /\ top.value <= top.maxValue
  /\ currentPresses' = [currentPresses EXCEPT ![orderedColumns[top.index]] = top.value]
  /\ LET added == addContribution(assignedContribution, pivotRows, top.index, top.value)
     IN IF feasible(pivotRows, added, top.index)
          THEN /\ assignedContribution' = added
               /\ stack' = Append(replaceTop([top EXCEPT !.at = "called"]),
                                  frame(top.index + 1, top.partialSum + top.value))
               /\ dfsCalls' = dfsCalls + 1
          ELSE /\ assignedContribution' = subContribution(added, pivotRows, top.index, top.value)
               /\ stack' = replaceTop([top EXCEPT !.value = nextValue(top.value)])
               /\ UNCHANGED dfsCalls
  /\ UNCHANGED <<machine, pc, rrefVars, prepVars, best, bestPresses, result>>
  /\ UNCHANGED envVars
  /\ UNCHANGED converted

\* the rest of an iteration after the recursive call returned
DfsAfterCall ==
  /\ pc = "search"
  /\ stack # <<>>
  /\ top.at = "called"
  /\ assignedContribution' = subContribution(assignedContribution, pivotRows,
                                             top.index, top.value)
  /\ stack' = replaceTop([top EXCEPT !.at = "loop", !.value = nextValue(top.value)])
  /\ UNCHANGED <<machine, pc, rrefVars, prepVars, currentPresses, best,
                 bestPresses, dfsCalls, result>>
  /\ UNCHANGED envVars
  /\ UNCHANGED converted

\* the value loop is over
DfsLoopExit ==
  /\ pc = "search"
  /\ stack # <<>>
  /\ top.at = "loop"
  /\ top.value > top.maxValue
  /\ currentPresses' = [currentPresses EXCEPT ![orderedColumns[top.index]] = 0]
  /\ stack' = pop
  /\ UNCHANGED <<machine, pc, rrefVars, prepVars, assignedContribution,
                 best, bestPresses, dfsCalls, result>>
  /\ UNCHANGED envVars
  /\ UNCHANGED converted

\* Variant of searchOutcome that returns best and bestPresses unchecked.
searchOutcomeUnchecked(b, presses) == Returned(b.value, presses.presses)

\* The outcome once dfs(0, 0) has returned.
searchOutcome(b, presses) ==
  IF ~b.finite \/ ~presses.defined THEN Thrown(ErrFailedToFind)
  ELSE Returned(b.value, presses.presses)

Finish ==
  /\ pc = "search"
  /\ stack = <<>>
  /\ result' = searchOutcome(best, bestPresses)
  /\ pc' = "done"
  /\ UNCHANGED <<machine, rrefVars, prepVars, searchVars>>
  /\ UNCHANGED envVars
  /\ UNCHANGED converted

Next ==
  \/ ReturnNoCounters
  \/ NoButtons
  \/ Reduce
  \/ ThrowInfeasible
  \/ ReturnNoPivotRows
  \/ Prepare
  \/ SolveUnique
  \/ StartSearch
  \/ DfsLeaf
  \/ DfsZeroBound
  \/ DfsZeroBoundReturn
  \/ DfsLoopEntry
  \/ DfsIterate
  \/ DfsAfterCall
  \/ DfsLoopExit
  \/ Finish

Spec == Init /\ [][Next]_vars

\* The same call, of the dense machines as well.
DenseSpec == DenseInit /\ [][Next]_vars

\* ------------------------------------------------------- bfsMinPresses
\* state ^ mask on the sets of lights that are on
xor(a, b) == (a \ b) \cup (b \ a)

\* The breadth-first search by levels: dist of the target, or +Infinity when
\* the queue runs empty.
RECURSIVE bfsFrom(_, _, _, _, _)
bfsFrom(frontier, seen, steps, buttonMasks, targetMask) ==
  IF targetMask \in frontier THEN finiteBest(steps)
  ELSE LET next == {xor(state, buttonMasks[b]) :
                      state \in frontier, b \in 1..Len(buttonMasks)} \ seen
       IN IF next = {} THEN POSITIVE_INFINITY
          ELSE bfsFrom(next, seen \cup next, steps + 1, buttonMasks, targetMask)

bfsMinPresses(numLights, buttonMasks, targetMask) ==
  IF targetMask = {} THEN finiteBest(0)
  ELSE IF Len(buttonMasks) = 0 THEN POSITIVE_INFINITY
  ELSE bfsFrom({{}}, {{}}, 0, buttonMasks, targetMask)

\* ---------------------------------------------------------- parseInput
\* The text of a line has no match of the pattern.
NoMatch == <<"no match">>

\* The items between the commas of a list.
Items == {" ", "0", "1", "-1", "1.5", "x"}

\* value.trim()
trim(text) == IF text = " " THEN "" ELSE text

\* A JavaScript number: NaN, or a decimal value held in tenths.
NaN == [nan |-> TRUE, tenths |-> 0]
numberOf(tenths) == [nan |-> FALSE, tenths |-> tenths]

\* Number(value) of a trimmed item that is not empty
Number(text) ==
  CASE text = "0" -> numberOf(0)
    [] text = "1" -> numberOf(10)
    [] text = "-1" -> numberOf(-10)
    [] text = "1.5" -> numberOf(15)
    [] OTHER -> NaN

\* Number.isInteger(idx)
NumberIsInteger(n) == ~n.nan /\ n.tenths % 10 = 0

\* Variant of outOfBounds without the test for a negative index.
outOfBoundsAbove(n, numLights) == ~n.nan /\ n.tenths >= 10 * numLights

\* idx < 0 || idx >= numLights (every comparison with NaN is false)
outOfBounds(n, numLights) ==
  ~n.nan /\ (n.tenths < 0 \/ n.tenths >= 10 * numLights)

RECURSIVE filterNonEmpty(_)
filterNonEmpty(texts) ==
  IF texts = <<>> THEN <<>>
  ELSE IF Len(Head(texts)) > 0 THEN <<Head(texts)>> \o filterNonEmpty(Tail(texts))
       ELSE filterNonEmpty(Tail(texts))

\* .split(',').map(trim).filter(length > 0) of the text of a group
itemsOf(group) == filterNonEmpty([i \in 1..Len(group) |-> trim(group[i])])

\* targetMask as the set of the (0-based) positions of '#'
targetMaskOf(targetString) ==
  {i \in 0..(Len(targetString) - 1) : targetString[i + 1] = "#"}

ErrMissingIndicator == "missing indicator diagram"
ErrMissingJoltage == "missing joltage requirements"
ErrJoltageCount == "joltage requirement count does not match indicator lights"
ErrInvalidIndex == "invalid button index (expected integer)"
ErrIndexOutOfBounds == "button index out of bounds"
NoError == ""

\* The first error of the indices of one button group, in the order of the
\* map callback: not an integer, then out of bounds.
RECURSIVE indicesError(_, _)
indicesError(texts, numLights) ==
  IF texts = <<>> THEN NoError
  ELSE LET idx == Number(Head(texts))
       IN IF ~NumberIsInteger(idx) THEN ErrInvalidIndex
          ELSE IF outOfBounds(idx, numLights) THEN ErrIndexOutOfBounds
          ELSE indicesError(Tail(texts), numLights)

\* The loop over the button matches: masks and counter sets of the groups
\* read so far, or the first error.
RECURSIVE parseButtons(_, _, _, _)
parseButtons(groups, numLights, buttonMasks, buttonCounterSets) ==
  IF groups = <<>>
    THEN [error |-> NoError, buttonMasks |-> buttonMasks,
          buttonCounterSets |-> buttonCounterSets]
  ELSE LET texts == itemsOf(Head(groups))
           error == indicesError(texts, numLights)
           indices == [i \in 1..Len(texts) |-> Number(texts[i])]
       IN IF error # NoError
            THEN [error |-> error, buttonMasks |-> <<>>, buttonCounterSets |-> <<>>]
          ELSE IF Len(indices) = 0
            THEN parseButtons(Tail(groups), numLights, buttonMasks, buttonCounterSets)
          ELSE parseButtons(Tail(groups), numLights,
                            Append(buttonMasks,
                                   {indices[i].tenths \div 10 : i \in 1..Len(indices)}),
                            Append(buttonCounterSets, indices))

parseFailure(error) == [ok |-> FALSE, error |-> error]

parseMachine(line) ==
  IF line.indicator = NoMatch THEN parseFailure(ErrMissingIndicator)
  ELSE IF line.joltage = NoMatch THEN parseFailure(ErrMissingJoltage)
  ELSE
    LET targetString == line.indicator
        numLights == Len(targetString)
        texts == itemsOf(line.joltage)
        joltageTargets == [i \in 1..Len(texts) |-> Number(texts[i])]
        buttons == parseButtons(line.buttons, numLights, <<>>, <<>>)
    IN IF Len(joltageTargets) # numLights THEN parseFailure(ErrJoltageCount)
       ELSE IF buttons.error # NoError THEN parseFailure(buttons.error)
       ELSE [ok |-> TRUE,
             machine |-> [numLights |-> numLights,
                          targetMask |-> targetMaskOf(targetString),
                          buttonMasks |-> buttons.buttonMasks,
                          buttonCounterSets |-> buttons.buttonCounterSets,
                          joltageTargets |-> joltageTargets]]

\* Sequences of at most n elements of S.
SeqUpTo(S, n) == UNION {[1..k -> S] : k \in 0..n}

\* The trimmed, non-empty lines of the bounds: what the three patterns of
\* parseMachine find in them.
Lines ==
  [indicator : {NoMatch} \cup (SeqUpTo({".", "#"}, MaxLights) \ {<<>>}),
   joltage : {NoMatch} \cup SeqUpTo(Items, MaxJoltageItems),
   buttons : SeqUpTo(SeqUpTo(Items, MaxButtonItems), MaxButtonGroups)]

NoLine == [indicator |-> NoMatch, joltage |-> NoMatch, buttons |-> <<>>]

\* parseInput has read no line yet.
ParseInit ==
  /\ machine = [joltageTargets |-> <<>>, buttonCounterSets |-> <<>>]
  /\ pc = "call"
  /\ InitLocals
  /\ statics = [ZERO |-> ZERO, ONE |-> ONE]
  /\ arith = NoArithmetic
  /\ twin = NotCalled
  /\ replay = NotReplaying
  /\ history = <<>>
  /\ parked = <<>>
  /\ solving = NotSolving
  /\ parsing = [status |-> "reading", machines |-> <<>>, line |-> NoLine,
                lineNumber |-> 0, error |-> NoError]

callVars == <<machine, pc, rrefVars, prepVars, searchVars, result, converted>>

\* One turn of the loop of parseInput: parseMachine of the next line, which
\* throws or gives the machine that is pushed.
ParseLine ==
  /\ parsing.status = "reading"
  /\ Len(parsing.machines) < MaxLines
  /\ \E line \in Lines :
       LET parsed == parseMachine(line)
       IN parsing' =
            IF parsed.ok
              THEN [parsing EXCEPT !.machines = Append(@, parsed.machine),
                                   !.line = line, !.lineNumber = @ + 1]
              ELSE [status |-> "thrown", machines |-> <<>>, line |-> line,
                    lineNumber |-> parsing.lineNumber + 1, error |-> parsed.error]
  /\ UNCHANGED <<callVars, statics, arith, twin, replay, history, parked, solving>>

\* The lines are used up: return machines
ParseReturn ==
  /\ parsing.status = "reading"
  /\ parsing' = [parsing EXCEPT !.status = "returned"]
  /\ UNCHANGED <<callVars, statics, arith, twin, replay, history, parked, solving>>

ParseNext ==
  \/ ParseLine
  \/ ParseReturn

ParseSpec == ParseInit /\ [][ParseNext]_vars

\* --------------------------------------------------------------- solve
\* The machines parseInput can return: one mask and one counter set for
\* each button that has an index, as many targets as lights.
SolveMachinesOf(n, nb) ==
  {[numLights |-> n, targetMask |-> t, buttonMasks |-> bs,
    buttonCounterSets |-> [b \in 1..nb |-> {i + 1 : i \in bs[b]}],
    joltageTargets |-> jt] :
     t \in SUBSET (0..(n - 1)),
     bs \in [1..nb -> (SUBSET (0..(n - 1))) \ {{}}],
     jt \in [1..n -> 0..SolveMaxTarget]}

SolveMachines ==
  UNION {SolveMachinesOf(n, nb) : n \in 1..SolveMaxLights, nb \in 0..SolveMaxButtons}

ErrCannotConfigure == "Machine cannot be configured with the provided buttons"

NoOutcome == [pending |-> TRUE]

\* solve has the machines of parseInput and has not looked at them yet; no
\* call of minPressesForJoltage is under way.
SolveInit ==
  /\ machine = [joltageTargets |-> <<>>, buttonCounterSets |-> <<>>]
  /\ pc = "idle"
  /\ InitLocals
  /\ statics = [ZERO |-> ZERO, ONE |-> ONE]
  /\ arith = NoArithmetic
  /\ twin = NotCalled
  /\ replay = NotReplaying
  /\ history = <<>>
  /\ parked = <<>>
  /\ parsing = NotParsing
  /\ \E machines \in SeqUpTo(SolveMachines, SolveMaxMachines) :
       solving = [status |-> "start", machines |-> machines, idx |-> 0,
                  part1Total |-> 0, part1HardestMachine |-> 0,
                  part1HardestPresses |-> 0,
                  part2Total |-> 0, part2HardestMachine |-> 0,
                  part2HardestPresses |-> 0,
                  outcome |-> NoOutcome]

\* machines.length === 0
SolveNoMachines ==
  /\ solving.status = "start"
  /\ solving.machines = <<>>
  /\ solving' = [solving EXCEPT
                   !.status = "returned",
                   !.outcome = [part1 |-> 0, part2 |-> 0,
                                details |-> [machines |-> 0]]]
  /\ UNCHANGED <<callVars, statics, arith, twin, replay, history, parked, parsing>>

\* The forEach callback up to the call of minPressesForJoltage: the lights
\* of the next machine, the throw when they cannot be reached, the totals of
\* part 1, and the entry of the call with locals of its own.
SolveLights ==
  /\ solving.status \in {"start", "loop"}
  /\ pc = "idle"
  /\ solving.idx < Len(solving.machines)
  /\ LET m == solving.machines[solving.idx + 1]
         minPresses == bfsMinPresses(m.numLights, m.buttonMasks, m.targetMask)
     IN IF ~minPresses.finite
          THEN /\ solving' = [solving EXCEPT
                                !.status = "thrown",
                                !.outcome = [error |-> ErrCannotConfigure,
                                             machine |-> solving.idx + 1]]
               /\ UNCHANGED callVars
          ELSE /\ solving' = [solving EXCEPT
                                !.status = "joltage",
                                !.part1Total = @ + minPresses.value,
                                !.part1HardestPresses =
                                   IF minPresses.value > @ THEN minPresses.value ELSE @,
                                !.part1HardestMachine =
                                   IF minPresses.value > solving.part1HardestPresses
                                     THEN solving.idx + 1 ELSE @]
               /\ machine' = [joltageTargets |-> m.joltageTargets,
                              buttonCounterSets |-> m.buttonCounterSets]
               /\ pc' = "call"
               /\ matrix' = <<>>
               /\ pivotColumnsByRow' = <<>>
               /\ upperBounds' = <<>>
               /\ pivotRows' = <<>>
               /\ freeBounds' = <<>>
               /\ orderedColumns' = <<>>
               /\ assignedContribution' = <<>>
               /\ currentPresses' = <<>>
               /\ best' = POSITIVE_INFINITY
               /\ bestPresses' = undefined
               /\ stack' = <<>>
               /\ dfsCalls' = 0
               /\ result' = Pending
               /\ converted' = <<>>
  /\ UNCHANGED <<statics, arith, twin, replay, history, parked, parsing>>

\* Variant of callThrew in which the callback goes on after a failed call.
callThrewIgnored(r) == FALSE

\* minPressesForJoltage threw: nothing in solve catches it.
callThrew(r) == r.status = "thrown"

\* The rest of the forEach callback once minPressesForJoltage has ended: its
\* error leaves solve, or its total goes to the totals of part 2.
SolveJoltage ==
  /\ solving.status = "joltage"
  /\ pc = "done"
  /\ IF callThrew(result)
       THEN solving' = [solving EXCEPT
                         !.status = "thrown",
                         !.outcome = [error |-> result.error,
                                      machine |-> solving.idx + 1]]
       ELSE solving' = [solving EXCEPT
                         !.status = "loop",
                         !.idx = @ + 1,
                         !.part2Total = @ + result.totalPresses,
                         !.part2HardestPresses =
                            IF result.totalPresses > @ THEN result.totalPresses ELSE @,
                         !.part2HardestMachine =
                            IF result.totalPresses > solving.part2HardestPresses
                              THEN solving.idx + 1 ELSE @]
  /\ pc' = "idle"
  /\ UNCHANGED <<machine, rrefVars, prepVars, searchVars, result, converted,
                 statics, arith, twin, replay, history, parked, parsing>>

\* return Promise.resolve({part1, part2, details})
SolveReturn ==
  /\ solving.status = "loop"
  /\ pc = "idle"
  /\ solving.idx = Len(solving.machines)
  /\ solving' = [solving EXCEPT
                   !.status = "returned",
                   !.outcome =
                      [part1 |-> solving.part1Total, part2 |-> solving.part2Total,
                       details |->
                         [machines |-> Len(solving.machines),
                          part1HardestMachine |-> solving.part1HardestMachine,
                          part1HardestPresses |-> solving.part1HardestPresses,
                          part2HardestMachine |-> solving.part2HardestMachine,
                          part2HardestPresses |-> solving.part2HardestPresses]]]
  /\ UNCHANGED <<callVars, statics, arith, twin, replay, history, parked, parsing>>

\* The steps of solve and of the calls it makes.  A machine of parseInput has
\* a light at least and no button without an index, so that the branches
\* targets.length === 0 and pivotRows.length === 0 of minPressesForJoltage
\* are never taken from solve.
SolveNext ==
  \/ NoButtons
  \/ Reduce
  \/ ThrowInfeasible
  \/ Prepare
  \/ SolveUnique
  \/ StartSearch
  \/ DfsLeaf
  \/ DfsZeroBound
  \/ DfsZeroBoundReturn
  \/ DfsLoopEntry
  \/ DfsIterate
  \/ DfsAfterCall
  \/ DfsLoopExit
  \/ Finish
  \/ SolveNoMachines
  \/ SolveLights
  \/ SolveJoltage
  \/ SolveReturn

SolveSpec == SolveInit /\ [][SolveNext]_vars

\* ------------------------------------------ one caller, several calls
CallMachinesOf(nc, nb) ==
  [joltageTargets : [1..nc -> 0..CallMaxTarget],
   buttonCounterSets : [1..nb -> SUBSET (1..nc)]]

CallsInit ==
  /\ \E nc \in 0..CallMaxCounters, nb \in 0..CallMaxButtons :
       machine \in CallMachinesOf(nc, nb)
  /\ pc = "call"
  /\ InitLocals
  /\ InitEnv

\* The caller keeps the outcome of the call and calls minPressesForJoltage
\* again, with any machine.  The locals of the finished call are left as they
\* are: the declarations of the new call write over them as it goes.
CallAgain ==
  /\ pc = "done"
  /\ parked = <<>>
  /\ Len(history) + 1 < MaxCalls
  /\ history' = Append(history, [machine |-> machine, result |-> result])
  /\ \E nc \in 0..CallMaxCounters, nb \in 0..CallMaxButtons :
       machine' \in CallMachinesOf(nc, nb)
  /\ pc' = "call"
  /\ result' = Pending
  /\ converted' = <<>>
  /\ UNCHANGED <<rrefVars, prepVars, searchVars, statics, arith, twin, replay, parked, solving,
                 parsing>>

CallsNext ==
  \/ Next
  \/ CallAgain

CallsSpec == CallsInit /\ [][CallsNext]_vars

\* ------------------------------------------- two invocations, interleaved
\* The machine and the locals of the invocation that is running.
running ==
  [machine |-> machine, pc |-> pc, matrix |-> matrix,
   pivotColumnsByRow |-> pivotColumnsByRow, upperBounds |-> upperBounds,
   pivotRows |-> pivotRows, freeBounds |-> freeBounds,
   orderedColumns |-> orderedColumns,
   assignedContribution |-> assignedContribution,
   currentPresses |-> currentPresses, best |-> best, bestPresses |-> bestPresses,
   stack |-> stack, dfsCalls |-> dfsCalls, result |-> result,
   converted |-> converted]

\* An invocation that has not begun.
newInvocation(m) ==
  [machine |-> m, pc |-> "call", matrix |-> <<>>, pivotColumnsByRow |-> <<>>,
   upperBounds |-> <<>>, pivotRows |-> <<>>, freeBounds |-> <<>>,
   orderedColumns |-> <<>>, assignedContribution |-> <<>>,
   currentPresses |-> <<>>, best |-> POSITIVE_INFINITY, bestPresses |-> undefined,
   stack |-> <<>>, dfsCalls |-> 0, result |-> Pending, converted |-> <<>>]

\* The caller keeps the outcome of the call it made alone and makes the same
\* call again.
Repeat ==
  /\ pc = "done"
  /\ parked = <<>>
  /\ history = <<>>
  /\ history' = <<[machine |-> machine, result |-> result]>>
  /\ pc' = "call"
  /\ result' = Pending
  /\ converted' = <<>>
  /\ UNCHANGED <<machine, rrefVars, prepVars, searchVars, statics, arith, twin, replay, parked,
                 solving, parsing>>

\* A second caller invokes the solver on any machine; its invocation waits
\* for its first step.
StartOther ==
  /\ pc = "call"
  /\ parked = <<>>
  /\ history # <<>>
  /\ \E nc \in 0..CallMaxCounters, nb \in 0..CallMaxButtons :
       \E m \in CallMachinesOf(nc, nb) : parked' = <<newInvocation(m)>>
  /\ UNCHANGED <<machine, pc, rrefVars, prepVars, searchVars, result, converted,
                 statics, arith, twin, replay,
                 history, solving, parsing>>

\* Variant of resumedBest in which both invocations use one variable best.
resumedBestShared(invocation) == best

\* best of the invocation that resumes: its own, declared within its call.
resumedBest(invocation) == invocation.best

\* The running invocation stops after a step and the other one goes on: each
\* has its own locals.
Switch ==
  /\ parked # <<>>
  /\ parked' = <<running>>
  /\ machine' = parked[1].machine
  /\ pc' = parked[1].pc
  /\ matrix' = parked[1].matrix
  /\ pivotColumnsByRow' = parked[1].pivotColumnsByRow
  /\ upperBounds' = parked[1].upperBounds
  /\ pivotRows' = parked[1].pivotRows
  /\ freeBounds' = parked[1].freeBounds
  /\ orderedColumns' = parked[1].orderedColumns
  /\ assignedContribution' = parked[1].assignedContribution
  /\ currentPresses' = parked[1].currentPresses
  /\ best' = resumedBest(parked[1])
  /\ bestPresses' = parked[1].bestPresses
  /\ stack' = parked[1].stack
  /\ dfsCalls' = parked[1].dfsCalls
  /\ result' = parked[1].result
  /\ converted' = parked[1].converted
  /\ UNCHANGED <<statics, arith, twin, replay, history, solving, parsing>>

InterleavedNext ==
  \/ Next
  \/ Repeat
  \/ StartOther
  \/ Switch

InterleavedSpec == CallsInit /\ [][InterleavedNext]_vars

\* ------------------------------------ the visualization: buildJoltageFrames
\* The lines of the visualization's input: an indicator diagram, a joltage
\* list and button groups whose items are the texts 0 and 1.
ReplayLines ==
  [indicator : SeqUpTo({".", "#"}, ReplayMaxLights) \ {<<>>},
   joltage : SeqUpTo({"0", "1"}, ReplayMaxLights),
   buttons : SeqUpTo(SeqUpTo({"0", "1"}, ReplayMaxButtonItems), ReplayMaxButtonGroups)]

\* The integer a Number of the parser is, when it is one.
integerOf(n) == n.tenths \div 10

\* buttonIndex: null
null == -1

\* for (const counterIdx of affected) counters[counterIdx] += 1, from the
\* first listed index on: once for every index the button lists.
RECURSIVE pressCounter(_, _)
pressCounter(counters, affected) ==
  IF affected = <<>> THEN counters
  ELSE LET counterIdx == integerOf(Head(affected))
       IN pressCounter(IF counterIdx < Len(counters)
                         THEN [counters EXCEPT ![counterIdx + 1] = @ + 1]
                         ELSE counters,
                       Tail(affected))

\* The frames that the presses of the buttons from buttonIndex on add, the
\* button at buttonIndex having been pressed `press` times already.
RECURSIVE framesFrom(_, _, _, _, _, _)
framesFrom(m, buttonPresses, buttonIndex, press, step, counters) ==
  IF buttonIndex > Len(buttonPresses) THEN <<>>
  ELSE IF press >= buttonPresses[buttonIndex]
    THEN framesFrom(m, buttonPresses, buttonIndex + 1, 0, step, counters)
  ELSE LET after == pressCounter(counters, m.buttonCounterSets[buttonIndex])
       IN <<[step |-> step + 1, counters |-> after, buttonIndex |-> buttonIndex]>>
            \o framesFrom(m, buttonPresses, buttonIndex, press + 1, step + 1, after)

\* plan is the result of the call: a thrown call is the plan null.
buildJoltageFrames(m, plan) ==
  IF plan.status # "returned" THEN <<>>
  ELSE LET counters == zeroFill(Len(m.joltageTargets))
       IN <<[step |-> 0, counters |-> counters, buttonIndex |-> null]>>
            \o framesFrom(m, plan.buttonPresses, 1, 0, 0, counters)

\* The visualization has parsed its input and selected a machine; no plan
\* has been computed.
ReplayInit ==
  /\ machine = [joltageTargets |-> <<>>, buttonCounterSets |-> <<>>]
  /\ pc = "idle"
  /\ InitLocals
  /\ statics = [ZERO |-> ZERO, ONE |-> ONE]
  /\ arith = NoArithmetic
  /\ twin = NotCalled
  /\ history = <<>>
  /\ parked = <<>>
  /\ solving = NotSolving
  /\ parsing = NotParsing
  /\ \E line \in ReplayLines :
       /\ parseMachine(line).ok
       /\ replay = [status |-> "parsed", machine |-> parseMachine(line).machine,
                    frames |-> <<>>]

\* joltagePlans: minPressesForJoltage(machine) is called.  The solver reads
\* the targets as integers and the counters of a button one by one, into
\* cells of the matrix and into a minimum.
ReplayPlan ==
  /\ replay.status = "parsed"
  /\ pc = "idle"
  /\ replay' = [replay EXCEPT !.status = "planning"]
  /\ machine' =
       [joltageTargets |->
          [c \in 1..Len(replay.machine.joltageTargets) |->
             integerOf(replay.machine.joltageTargets[c])],
        buttonCounterSets |->
          [b \in 1..Len(replay.machine.buttonCounterSets) |->
             {integerOf(replay.machine.buttonCounterSets[b][k]) + 1 :
                k \in 1..Len(replay.machine.buttonCounterSets[b])}]]
  /\ pc' = "call"
  /\ UNCHANGED <<rrefVars, prepVars, searchVars, result, converted>>
  /\ UNCHANGED <<statics, history, parked, solving, parsing, arith, twin>>

\* joltageFrames: buildJoltageFrames(selectedMachine, selectedJoltagePlan)
ReplayFrames ==
  /\ replay.status = "planning"
  /\ pc = "done"
  /\ replay' = [replay EXCEPT !.status = "replayed",
                              !.frames = buildJoltageFrames(replay.machine, result)]
  /\ pc' = "idle"
  /\ UNCHANGED <<machine, rrefVars, prepVars, searchVars, result, converted>>
  /\ UNCHANGED <<statics, history, parked, solving, parsing, arith, twin>>

\* The steps of the visualization and of the call it makes.  Its machine has
\* a counter at least and no button without an index (see SolveNext).
ReplayNext ==
  \/ NoButtons
  \/ Reduce
  \/ ThrowInfeasible
  \/ Prepare
  \/ SolveUnique
  \/ StartSearch
  \/ DfsLeaf
  \/ DfsZeroBound
  \/ DfsZeroBoundReturn
  \/ DfsLoopEntry
  \/ DfsIterate
  \/ DfsAfterCall
  \/ DfsLoopExit
  \/ Finish
  \/ ReplayPlan
  \/ ReplayFrames

ReplaySpec == ReplayInit /\ [][ReplayNext]_vars

\* --------------------- the number-returning minPressesForJoltage (day10.ts)
\* The function differs from the plan-returning one in what it keeps and
\* returns; rref, buildAugmentedMatrix, computeVariableUpperBounds, the pivot
\* rows, the order of the free variables and the tests of the search have the
\* same text in both files.
NumberReturned(value) == [status |-> "returned", value |-> value, error |-> ""]
NumberThrown(message) == [status |-> "thrown", value |-> 0, error |-> message]

\* The loop over the pivot rows in the freeCount === 0 branch, from rowIdx on.
RECURSIVE uniqueNumberFrom(_, _, _, _)
uniqueNumberFrom(rows, bounds, rowIdx, total) ==
  IF rowIdx > Len(rows) THEN NumberReturned(total)
  ELSE LET row == rows[rowIdx] IN
    IF ~isInteger(row.rhs) THEN NumberThrown(ErrNonInteger)
    ELSE LET presses == toNumber(row.rhs) IN
      IF presses < 0 \/ presses > bounds[row.pivotCol]
        THEN NumberThrown(ErrViolatesBounds)
      ELSE uniqueNumberFrom(rows, bounds, rowIdx + 1, total + presses)

\* dfs(index, partialSum) with the value of best at the call; the value of
\* best at the return.  ctx holds pivotRows, upperBounds and freeBounds.
RECURSIVE dfsNumber(_, _, _, _, _)
RECURSIVE dfsNumberLoop(_, _, _, _, _, _, _)
dfsNumber(index, partialSum, assigned, b, ctx) ==
  IF index = Len(ctx.freeBounds) + 1
    THEN IF leafFeasible(ctx.pivotRows, assigned, ctx.upperBounds)
         THEN LET total == leafTotal(ctx.pivotRows, assigned, partialSum)
              IN IF ~b.finite \/ total < b.value THEN finiteBest(total) ELSE b
         ELSE b
  ELSE IF ctx.freeBounds[index] = 0
    THEN IF constraintsSatisfied(ctx.pivotRows, assigned, index)
         THEN dfsNumber(index + 1, partialSum, assigned, b, ctx)
         ELSE b
  ELSE LET maxValue == IF b.finite
                         THEN minOf(ctx.freeBounds[index], b.value - partialSum - 1)
                         ELSE ctx.freeBounds[index]
       IN IF b.finite /\ b.value - partialSum <= 0 THEN b
          ELSE IF maxValue < 0 THEN b
          ELSE dfsNumberLoop(index, partialSum, assigned, b, 0, maxValue, ctx)

\* The value loop from `value` on.
dfsNumberLoop(index, partialSum, assigned, b, value, maxValue, ctx) ==
  IF value > maxValue THEN b
  ELSE LET added == addContribution(assigned, ctx.pivotRows, index, value)
           after == IF feasible(ctx.pivotRows, added, index)
                      THEN dfsNumber(index + 1, partialSum + value, added, b, ctx)
                      ELSE b
       IN dfsNumberLoop(index, partialSum,
                        subContribution(added, ctx.pivotRows, index, value),
                        after, value + 1, maxValue, ctx)

\* Variant of numberSearchOutcome that returns best untested.
numberSearchOutcomeUntested(b) == NumberReturned(b.value)

\* The outcome once dfs(0, 0) has returned.
numberSearchOutcome(b) ==
  IF ~b.finite THEN NumberThrown(ErrFailedToFind) ELSE NumberReturned(b.value)

\* From the reduced matrix on.
numberFromReduced(mat, pivots, bounds, variableCount) ==
  LET rows == collectPivotRows(mat, pivots, bounds, 1, variableCount)
      freeColumns == freeColumnsFrom(pivotColumnSetOf(rows), 1, variableCount)
      freeVarInfos == freeVarInfosOf(freeColumns, bounds)
      fBounds == [i \in 1..Len(freeVarInfos) |-> freeVarInfos[i].bound]
      columns == [i \in 1..Len(freeVarInfos) |->
                    freeColumns[freeVarInfos[i].originalIndex]]
      filled == [i \in 1..Len(rows) |-> fillPivotRow(rows[i], mat, columns, fBounds)]
  IN IF someInfeasibleRow(mat, variableCount) THEN NumberThrown(ErrCannotSatisfy)
     ELSE IF rows = <<>> THEN NumberReturned(0)
     ELSE IF Len(freeColumns) = 0 THEN uniqueNumberFrom(filled, bounds, 1, 0)
     ELSE numberSearchOutcome(
            dfsNumber(1, 0, [rowIdx \in 1..Len(filled) |-> ZERO], POSITIVE_INFINITY,
                      [pivotRows |-> filled, upperBounds |-> bounds,
                       freeBounds |-> fBounds]))

minPressesForJoltageNumber(m) ==
  LET ts == m.joltageTargets
      sets == m.buttonCounterSets
  IN IF Len(ts) = 0 THEN NumberReturned(0)
     ELSE IF Len(sets) = 0
       THEN IF allTargetsZero(ts) THEN NumberReturned(0)
            ELSE NumberThrown(ErrNoButtons)
     ELSE LET reduced == rref(buildAugmentedMatrix(sets, Len(ts), ts), Len(sets))
          IN numberFromReduced(reduced.matrix, reduced.pivotColumnsByRow,
                               computeVariableUpperBounds(sets, ts), Len(sets))

\* The caller of the plan-returning function calls the number-returning one
\* with the same machine.
CallNumber ==
  /\ pc = "done"
  /\ twin = NotCalled
  /\ twin' = minPressesForJoltageNumber(machine)
  /\ UNCHANGED <<callVars, statics, history, parked, solving, parsing, arith, replay>>

TwinNext ==
  \/ Next
  \/ CallNumber

TwinSpec == Init /\ [][TwinNext]_vars

\* ------------------------------------------- the Fraction class on its own
ErrZeroDenominator == "Fraction denominator cannot be zero"
ErrDivisionByZero == "Division by zero fraction"

FractionArguments == (-MaxPart)..MaxPart

\* Variant of operandAfter in which the operation writes its result into the
\* instance it was called on.
operandAfterInPlace(operand, produced) == produced

\* An operand once an operation has returned: num and den are readonly, and
\* each operation builds its result with new Fraction.
operandAfter(operand, produced) == operand

\* The class is loaded: the instances at hand are Fraction.ZERO and
\* Fraction.ONE, and no operation has been called.
FractionInit ==
  /\ machine = [joltageTargets |-> <<>>, buttonCounterSets |-> <<>>]
  /\ pc = "idle"
  /\ InitLocals
  /\ statics = [ZERO |-> ZERO, ONE |-> ONE]
  /\ history = <<>>
  /\ parked = <<>>
  /\ solving = NotSolving
  /\ parsing = NotParsing
  /\ twin = NotCalled
  /\ replay = NotReplaying
  /\ arith = [status |-> "ready", op |-> "none", this |-> ZERO, other |-> ONE,
              num |-> 0, den |-> 1, result |-> FractionError, comparison |-> 0,
              error |-> NoError]

\* What a constructor call or an operation leaves: the new instance, or the
\* error and no instance.
arithAfter(op, num, den, produced, error) ==
  [arith EXCEPT
     !.status = IF produced = FractionError THEN "thrown" ELSE "returned",
     !.op = op, !.num = num, !.den = den,
     !.this = IF produced = FractionError THEN @ ELSE operandAfter(@, produced),
     !.result = produced,
     !.comparison = 0,
     !.error = IF produced = FractionError THEN error ELSE NoError]

arithRest == <<callVars, statics, history, parked, solving, parsing, twin, replay>>

\* new Fraction(num, den)
FractionConstruct ==
  /\ arith.status # "none"
  /\ \E num \in FractionArguments, den \in FractionArguments :
       arith' = arithAfter("new", num, den, Fraction(num, den), ErrZeroDenominator)
  /\ UNCHANGED arithRest

\* Fraction.fromInt(value)
FractionFromInt ==
  /\ arith.status # "none"
  /\ \E value \in FractionArguments :
       arith' = arithAfter("fromInt", value, 1, fromInt(value), ErrZeroDenominator)
  /\ UNCHANGED arithRest

\* this.add(other)
FractionAdd ==
  /\ arith.status # "none"
  /\ arith' = arithAfter("add", 0, 1, add(arith.this, arith.other), ErrZeroDenominator)
  /\ UNCHANGED arithRest

\* this.sub(other)
FractionSub ==
  /\ arith.status # "none"
  /\ arith' = arithAfter("sub", 0, 1, sub(arith.this, arith.other), ErrZeroDenominator)
  /\ UNCHANGED arithRest

\* this.mul(other)
FractionMul ==
  /\ arith.status # "none"
  /\ arith' = arithAfter("mul", 0, 1, mul(arith.this, arith.other), ErrZeroDenominator)
  /\ UNCHANGED arithRest

\* this.div(other)
FractionDiv ==
  /\ arith.status # "none"
  /\ arith' = arithAfter("div", 0, 1, div(arith.this, arith.other), ErrDivisionByZero)
  /\ UNCHANGED arithRest

\* this.mulInt(value), value an integer
FractionMulInt ==
  /\ arith.status # "none"
  /\ \E value \in FractionArguments :
       arith' = arithAfter("mulInt", value, 1, mulInt(arith.this, value),
                           ErrZeroDenominator)
  /\ UNCHANGED arithRest

\* this.compare(other)
FractionCompare ==
  /\ arith.status # "none"
  /\ arith' = [arith EXCEPT !.status = "returned", !.op = "compare",
                            !.num = 0, !.den = 1, !.result = FractionError,
                            !.comparison = compare(arith.this, arith.other),
                            !.error = NoError]
  /\ UNCHANGED arithRest

\* The caller goes on with the instance an operation returned, as this or as
\* other of the next operation.
FractionKeep ==
  /\ arith.status = "returned"
  /\ arith.op \notin {"compare", "keep"}
  /\ abs(arith.result.num) <= MaxPart
  /\ arith.result.den <= MaxPart
  /\ \/ arith' = [arith EXCEPT !.op = "keep", !.this = arith.result]
     \/ arith' = [arith EXCEPT !.op = "keep", !.other = arith.result]
  /\ UNCHANGED arithRest

FractionNext ==
  \/ FractionConstruct
  \/ FractionFromInt
  \/ FractionAdd
  \/ FractionSub
  \/ FractionMul
  \/ FractionDiv
  \/ FractionMulInt
  \/ FractionCompare
  \/ FractionKeep

FractionSpec == FractionInit /\ [][FractionNext]_vars

\* ================================================================ claims
Done == pc = "done"
ReturnedPlan == Done /\ result.status = "returned"
Failed == Done /\ result.status = "thrown"
ButtonCount == Len(buttonSets)
CounterCount == Len(targets)
\* rref has run (the matrix of a machine with counters is not empty)
Reduced == matrix # <<>>
SearchRan == dfsCalls > 0

\* Value of counter c after pressing each of the buttons 1..b presses[b] times.
RECURSIVE CounterSum(_, _, _)
CounterSum(presses, c, b) ==
  IF b = 0 THEN 0
  ELSE (IF c \in buttonSets[b] THEN presses[b] ELSE 0) + CounterSum(presses, c, b - 1)

RECURSIVE SumUpTo(_, _)
SumUpTo(presses, b) == IF b = 0 THEN 0 ELSE presses[b] + SumUpTo(presses, b - 1)

TotalOf(presses) == SumUpTo(presses, Len(presses))

IsValidConfiguration(presses) ==
  \A c \in 1..CounterCount : CounterSum(presses, c, ButtonCount) = targets[c]

\* The valid configurations with press counts up to MaxTarget.  A button that
\* affects a counter cannot be pressed more often than that counter's target
\* in a valid configuration, and a button that affects none adds only to the
\* total, so the least total over these equals the least total over all valid
\* configurations, and one of these exists whenever a valid configuration does.
ValidConfigurations ==
  {presses \in [1..ButtonCount -> 0..MaxTarget] : IsValidConfiguration(presses)}

\* C1: for a machine with at least one valid configuration the call returns,
\* and the returned total is the least sum of press counts over the valid
\* configurations.
C1_MinimumTotal ==
  (Done /\ ValidConfigurations # {}) =>
    /\ result.status = "returned"
    /\ \A presses \in ValidConfigurations : result.totalPresses <= TotalOf(presses)
    /\ \E presses \in ValidConfigurations : result.totalPresses = TotalOf(presses)

\* A search returned the least total of a machine whose valid configurations
\* have different totals.
C1_Witness ==
  /\ ReturnedPlan
  /\ SearchRan
  /\ result.totalPresses > 0
  /\ \E p, q \in ValidConfigurations :
       /\ TotalOf(p) < TotalOf(q) /\ result.totalPresses = TotalOf(p)
       /\ \A b \in 1..ButtonCount : buttonSets[b] = {} => q[b] = 0

\* C2: simulating the returned press vector from all-zero counters yields
\* exactly the target on every counter.
C2_PlanReachesTargets ==
  ReturnedPlan =>
    \A c \in 1..CounterCount :
      CounterSum(result.buttonPresses, c, ButtonCount) = targets[c]

\* A search returned a plan that presses two buttons, for non-zero targets.
C2_Witness ==
  /\ ReturnedPlan
  /\ SearchRan
  /\ Cardinality({b \in 1..ButtonCount : result.buttonPresses[b] > 0}) >= 2

\* C3: totalPresses is the sum of buttonPresses, which has one entry per button.
C3_TotalIsSumOfPresses ==
  ReturnedPlan =>
    /\ Len(result.buttonPresses) = ButtonCount
    /\ result.totalPresses = TotalOf(result.buttonPresses)

\* A search returned a plan in which a pivot button and a free button are pressed.
C3_Witness ==
  /\ ReturnedPlan
  /\ SearchRan
  /\ \E i \in 1..Len(pivotRows) : result.buttonPresses[pivotRows[i].pivotCol] > 0
  /\ \E i \in 1..freeCount : result.buttonPresses[orderedColumns[i]] > 0

\* The upper bound of button b as the claim states it: the least target among
\* the counters it affects, 0 if it affects none.
LeastTargetOf(b) ==
  IF buttonSets[b] = {} THEN 0
  ELSE CHOOSE m \in {targets[c] : c \in buttonSets[b]} :
         \A c \in buttonSets[b] : m <= targets[c]

\* C4: every returned press count is between 0 and the button's upper bound.
C4_PressesWithinBounds ==
  ReturnedPlan =>
    \A b \in 1..Len(result.buttonPresses) :
      0 <= result.buttonPresses[b] /\ result.buttonPresses[b] <= LeastTargetOf(b)

\* A returned plan presses a button that affects two counters with different
\* targets exactly as often as the smaller target.
C4_Witness ==
  /\ ReturnedPlan
  /\ \E b \in 1..ButtonCount :
       /\ \E c, d \in buttonSets[b] : targets[c] < targets[d]
       /\ result.buttonPresses[b] = LeastTargetOf(b)
       /\ result.buttonPresses[b] > 0

\* A reduced row without pivot, with all button coefficients zero and a
\* non-zero right-hand side.
RowWithoutPivotAndNonZeroRhs(row) ==
  /\ pivotColumnsByRow[row] = -1
  /\ \A col \in 1..ButtonCount : matrix[row][col] = ZERO
  /\ matrix[row][ButtonCount + 1] # ZERO

ReducedInfeasible ==
  Reduced /\ \E row \in 1..Len(matrix) : RowWithoutPivotAndNonZeroRhs(row)

\* C5: with such a row the call fails with the infeasible-target error and
\* returns nothing, and no step of the search is ever executed.
C5_InfeasibleRowFailsBeforeSearch ==
  ReducedInfeasible =>
    /\ pc \in {"reduced", "done"}
    /\ dfsCalls = 0 /\ stack = <<>>
    /\ Done => result = Thrown(ErrCannotSatisfy)

\* The call failed on a reduced matrix that has pivot rows and a row 0 = rhs
\* with a negative right-hand side.
C5_Witness ==
  /\ Failed
  /\ ReducedInfeasible
  /\ \E row \in 1..Len(matrix) : pivotColumnsByRow[row] # -1
  /\ \E row \in 1..Len(matrix) :
       RowWithoutPivotAndNonZeroRhs(row) /\ matrix[row][ButtonCount + 1].num < 0

\* C6: a search that ends without a feasible leaf fails with the unsolvable
\* error; a returned total is finite and comes with a defined press vector.
C6_ExhaustedSearchFails ==
  (Done /\ SearchRan) =>
    /\ ~best.finite => result = Thrown(ErrFailedToFind)
    /\ result.status = "returned" =>
         /\ best.finite /\ bestPresses.defined
         /\ result = Returned(best.value, bestPresses.presses)

\* A search tried the values of a free variable with a positive bound, found
\* no feasible leaf, and failed.
C6_Witness ==
  /\ Failed
  /\ SearchRan
  /\ freeBounds[1] > 0
  /\ ~best.finite
  /\ result.error = ErrFailedToFind

\* C7: counters, no buttons and a non-zero target: the call fails with the
\* error for targets that the buttons cannot reach.
C7_NoButtonsNonZeroTargetFails ==
  (Done /\ CounterCount >= 1 /\ ButtonCount = 0
        /\ \E c \in 1..CounterCount : targets[c] # 0) =>
    result = Thrown(ErrNoButtons)

\* The call failed for a machine without buttons that has a zero and a
\* non-zero target.
C7_Witness ==
  /\ Failed
  /\ ButtonCount = 0
  /\ \E c, d \in 1..CounterCount : targets[c] = 0 /\ targets[d] > 0

\* C8: no buttons and all targets zero: total 0 and an empty press vector.
C8_NoButtonsZeroTargetsReturnsEmpty ==
  (Done /\ ButtonCount = 0 /\ \A c \in 1..CounterCount : targets[c] = 0) =>
    result = Returned(0, <<>>)

\* The call returned for a machine with counters, all of target zero, and no
\* buttons.
C8_Witness ==
  /\ ReturnedPlan
  /\ ButtonCount = 0
  /\ CounterCount >= 2
  /\ \A c \in 1..CounterCount : targets[c] = 0

\* No free variable: every button column is the pivot column of a row.
NoFreeVariable ==
  /\ Reduced
  /\ \A col \in 1..ButtonCount :
       \E row \in 1..Len(matrix) : pivotColumnsByRow[row] = col

\* The right-hand side of the row whose pivot column is col.
PivotRhs(col) ==
  matrix[CHOOSE row \in 1..Len(matrix) : pivotColumnsByRow[row] = col][ButtonCount + 1]

AllPivotRhsAdmissible ==
  \A col \in 1..ButtonCount :
    /\ PivotRhs(col).den = 1
    /\ 0 <= PivotRhs(col).num
    /\ PivotRhs(col).num <= LeastTargetOf(col)

\* The plan that presses every button as often as its row's right-hand side.
UniquePlan ==
  LET presses == [col \in 1..ButtonCount |-> PivotRhs(col).num]
  IN Returned(TotalOf(presses), presses)

UniqueOutcome ==
  /\ dfsCalls = 0
  /\ IF AllPivotRhsAdmissible THEN result = UniquePlan
     ELSE result.status = "thrown"

\* C9 as stated: with no free variable the call returns the unique solution
\* if every pivot value is an integer within its bounds, fails otherwise, and
\* performs no search.
C9_Original_NoFreeVariableUniqueSolution ==
  (Done /\ NoFreeVariable) => UniqueOutcome

\* C9, amended: the same, for reduced systems in which no row without pivot
\* has a non-zero right-hand side.
C9_NoFreeVariableUniqueSolution ==
  (Done /\ NoFreeVariable /\ ~ReducedInfeasible) => UniqueOutcome

\* The call returned the unique solution of a system of three buttons, each
\* pressed at least once.
C9_Witness ==
  /\ ReturnedPlan
  /\ NoFreeVariable
  /\ ~ReducedInfeasible
  /\ ButtonCount = 3
  /\ \A b \in 1..ButtonCount : result.buttonPresses[b] > 0

\* The call failed because the unique solution is not an integer vector.
C9_NonIntegerReached ==
  /\ Failed
  /\ NoFreeVariable
  /\ result.error = ErrNonInteger

\* C10: zero pivot rows and no infeasible row: total 0 and an all-zero press
\* vector with one entry per button; then every target is zero.
C10_NoPivotRowsReturnsZeros ==
  (Done /\ Reduced /\ ~ReducedInfeasible
        /\ \A row \in 1..Len(matrix) : pivotColumnsByRow[row] = -1) =>
    /\ result = Returned(0, [b \in 1..ButtonCount |-> 0])
    /\ \A c \in 1..CounterCount : targets[c] = 0

\* The call returned for a machine with two counters and two buttons whose
\* reduced matrix has no pivot.
C10_Witness ==
  /\ ReturnedPlan
  /\ Reduced
  /\ CounterCount >= 2 /\ ButtonCount >= 2
  /\ \A row \in 1..Len(matrix) : pivotColumnsByRow[row] = -1

\* Greatest number of steps of a call dfs(index, ...) and of all the calls
\* below it, for free variables with the bounds `bounds`.
RECURSIVE SubtreeSteps(_, _)
SubtreeSteps(bounds, index) ==
  IF index > Len(bounds) THEN 1
  ELSE IF bounds[index] = 0 THEN SubtreeSteps(bounds, index + 1) + 2
  ELSE 2 + (bounds[index] + 1) * (SubtreeSteps(bounds, index + 1) + 2)

\* Steps an active dfs call can still take, the call it waits for not counted.
FrameSteps(f) ==
  LET below == SubtreeSteps(freeBounds, f.index + 1) + 2
  IN CASE f.at = "enter" -> SubtreeSteps(freeBounds, f.index)
       [] f.at = "tail" -> 1
       [] f.at = "loop" ->
            (IF f.value <= f.maxValue THEN (f.maxValue - f.value + 1) * below ELSE 0) + 1
       [] f.at = "called" -> 2 + (f.maxValue - f.value) * below

RECURSIVE StackSteps(_)
StackSteps(frames) ==
  IF frames = <<>> THEN 0 ELSE FrameSteps(Head(frames)) + StackSteps(Tail(frames))

LargestTarget ==
  IF CounterCount = 0 THEN 0
  ELSE CHOOSE m \in {targets[c] : c \in 1..CounterCount} :
         \A c \in 1..CounterCount : targets[c] <= m

\* An upper bound of the number of steps the call can still take: it depends
\* on the machine alone until the free variables are known.
StepsLeft ==
  LET any == SubtreeSteps([b \in 1..ButtonCount |-> LargestTarget], 1)
  IN CASE pc = "done" -> 0
       [] pc = "search" -> 1 + StackSteps(stack)
       [] pc = "prepared" -> 2 + SubtreeSteps(freeBounds, 1)
       [] pc = "reduced" -> 3 + any
       [] pc = "call" -> 4 + any

\* C13: every call terminates: the row reduction finishes (each step of the
\* call is computed) and every step of the call, the steps of the depth-first
\* search included, takes the number of steps left down and never below zero,
\* so that no run of the call has infinitely many steps.
C13_Terminates == [][StepsLeft' < StepsLeft /\ StepsLeft' >= 0]_vars

\* A call ended after a search that made several dfs calls and found a plan.
C13_Witness ==
  /\ Done
  /\ dfsCalls >= 4
  /\ best.finite

AssignedValue(i) == currentPresses[orderedColumns[i]]

\* Sum over the positions i < index of coeffs[i] times the value assigned to i.
RECURSIVE ContributionBelow(_, _)
ContributionBelow(row, index) ==
  IF index <= 1 THEN ZERO
  ELSE add(ContributionBelow(row, index - 1),
           mulInt(row.coeffs[index - 1], AssignedValue(index - 1)))

\* Sum of the values assigned to the positions i < index.
RECURSIVE AssignedSumBelow(_)
AssignedSumBelow(index) ==
  IF index <= 1 THEN 0 ELSE AssignedSumBelow(index - 1) + AssignedValue(index - 1)

ContributionMatches(index) ==
  \A rowIdx \in 1..Len(pivotRows) :
    assignedContribution[rowIdx] = ContributionBelow(pivotRows[rowIdx], index)

\* dfs(index, partialSum) has just been entered.
AtDfsEntry == pc = "search" /\ stack # <<>> /\ top.at = "enter"

\* dfs(Len(stack) + 1, ...) has just returned to its caller.
AtDfsReturn == pc = "search" /\ (stack = <<>> \/ top.at \in {"called", "tail"})

\* C19: on every entry to dfs(index, partialSum) the assigned contribution of
\* every pivot row is the sum of coeff * value over the positions below index
\* and partialSum is the sum of those values; on every return from dfs(index,
\* ...) the assigned contribution is what it was at that entry (the positions
\* below index still hold their values) and the press count of the column of
\* position index is 0 again.
C19_BacktrackingExact ==
  /\ AtDfsEntry =>
       /\ ContributionMatches(top.index)
       /\ top.partialSum = AssignedSumBelow(top.index)
  /\ AtDfsReturn =>
       LET index == Len(stack) + 1
       IN /\ ContributionMatches(index)
          /\ index <= freeCount => AssignedValue(index) = 0

\* The second search position returned to a loop iteration of the first with
\* a positive value and a contribution that is not zero.
C19_Witness ==
  /\ AtDfsReturn
  /\ Len(stack) = 1
  /\ freeCount >= 2
  /\ top.at = "called"
  /\ top.value > 0
  /\ \E rowIdx \in 1..Len(pivotRows) : assignedContribution[rowIdx] # ZERO
  /\ dfsCalls >= 4

\* The feasible leaves of the branch that gives `value` to position `index`
\* below the values assigned to the positions before it: the valid
\* configurations within the upper bounds that agree with those values.
SkippedLeaves(index, value) ==
  {q \in ValidConfigurations :
     /\ \A b \in 1..ButtonCount : q[b] <= upperBounds[b]
     /\ \A i \in 1..(index - 1) : q[orderedColumns[i]] = AssignedValue(i)
     /\ q[orderedColumns[index]] = value}

BeatsBest(q) == ~best.finite \/ TotalOf(q) < best.value

NothingLost(index, values) ==
  \A value \in values : \A q \in SkippedLeaves(index, value) : ~BeatsBest(q)

\* The loop body is about to skip the recursive call for top.value.
SkipsByRange ==
  /\ top.at = "loop"
  /\ top.value <= top.maxValue
  /\ ~feasible(pivotRows,
               addContribution(assignedContribution, pivotRows, top.index, top.value),
               top.index)

\* The bound === 0 branch is about to return without the recursive call.
SkipsZeroBound ==
  /\ top.at = "enter"
  /\ top.index <= freeCount
  /\ freeBounds[top.index] = 0
  /\ ~constraintsSatisfied(pivotRows, assignedContribution, top.index)

\* The value loop is about to be capped (or not entered at all).
CapsLoop ==
  /\ top.at = "enter"
  /\ top.index <= freeCount
  /\ freeBounds[top.index] # 0

\* The capped value loop is over.
LeavesLoop == top.at = "loop" /\ top.value > top.maxValue

\* C18: every branch that dfs skips, by the range test of a pivot row or by
\* the cap best - partialSum - 1 of the value loop, holds no feasible leaf
\* whose total is less than best at the moment of skipping.
C18_PruningSound ==
  (pc = "search" /\ stack # <<>>) =>
    /\ SkipsByRange => NothingLost(top.index, {top.value})
    /\ SkipsZeroBound => NothingLost(top.index, {0})
    /\ CapsLoop =>
         NothingLost(top.index,
                     (loopMaxValue(freeBounds[top.index], best, top.partialSum) + 1)
                       ..freeBounds[top.index])
    /\ LeavesLoop =>
         NothingLost(top.index, (top.maxValue + 1)..freeBounds[top.index])

\* A capped value loop is over and the first value it left out has a feasible
\* leaf below it.
C18_Witness ==
  /\ pc = "search"
  /\ stack # <<>>
  /\ LeavesLoop
  /\ top.maxValue < freeBounds[top.index]
  /\ SkippedLeaves(top.index, top.maxValue + 1) # {}

\* The range test skips a value of a machine that has a valid configuration.
C18_RangeSkipReached ==
  /\ pc = "search"
  /\ stack # <<>>
  /\ SkipsByRange
  /\ ValidConfigurations # {}

\* best is finite and bestPresses is a complete press vector that is a valid
\* configuration within the upper bounds and sums to best.
BestPlanValid ==
  best.finite =>
    /\ bestPresses.defined
    /\ Len(bestPresses.presses) = ButtonCount
    /\ \A b \in 1..ButtonCount :
         bestPresses.presses[b] >= 0 /\ bestPresses.presses[b] <= upperBounds[b]
    /\ IsValidConfiguration(bestPresses.presses)
    /\ TotalOf(bestPresses.presses) = best.value

AtLeaf == pc = "search" /\ stack # <<>> /\ top.at = "enter" /\ top.index = freeCount + 1

\* Some pivot row of the leaf implies a value that is not an integer or lies
\* outside [0, bound].
LeafPivotInadmissible ==
  \E rowIdx \in 1..Len(pivotRows) :
    LET pivotValue == sub(pivotRows[rowIdx].rhs, assignedContribution[rowIdx])
    IN \/ pivotValue.den # 1
       \/ pivotValue.num < 0
       \/ pivotValue.num > upperBounds[pivotRows[rowIdx].pivotCol]

\* C20: no step makes best larger; after every step a finite best comes with
\* a complete press vector that is a valid configuration within all upper
\* bounds and sums to best; and the step of a leaf with an implied pivot value
\* that is no integer or outside [0, bound] changes neither best nor
\* bestPresses.
C20_BestMonotoneAndValid ==
  [][/\ best.finite => (best'.finite /\ best'.value <= best.value)
     /\ BestPlanValid'
     /\ (AtLeaf /\ LeafPivotInadmissible) => (best' = best /\ bestPresses' = bestPresses)]_vars

\* The search is at a leaf with an inadmissible pivot value after it found a
\* plan.
C20_Witness ==
  /\ AtLeaf
  /\ LeafPivotInadmissible
  /\ best.finite

\* The search is at an admissible leaf that improves a finite best.
C20_ImprovingLeafReached ==
  /\ AtLeaf
  /\ ~LeafPivotInadmissible
  /\ best.finite
  /\ leafTotal(pivotRows, assignedContribution, top.partialSum) < best.value

\* The calls that have ended, oldest first.
FinishedCalls ==
  IF pc = "done" THEN Append(history, [machine |-> machine, result |-> result])
  ELSE history

\* C11: two calls with equal machine descriptions have the same outcome (both
\* fail alike, or both return the same total and the same press vector),
\* whatever calls come before, between or after them.
C11_EqualMachinesEqualOutcomes ==
  \A i, j \in 1..Len(FinishedCalls) :
    FinishedCalls[i].machine = FinishedCalls[j].machine
      => FinishedCalls[i].result = FinishedCalls[j].result

\* Three calls ended: the first and the third of one machine, with a search
\* that returned a plan, and between them a call of another machine whose
\* search returned a smaller total.
C11_Witness ==
  /\ Len(FinishedCalls) = 3
  /\ FinishedCalls[1].machine = FinishedCalls[3].machine
  /\ FinishedCalls[2].machine # FinishedCalls[1].machine
  /\ FinishedCalls[3].result.status = "returned"
  /\ FinishedCalls[2].result.status = "returned"
  /\ FinishedCalls[2].result.totalPresses < FinishedCalls[3].result.totalPresses
  /\ FinishedCalls[2].result.totalPresses > 0
  /\ dfsCalls > 1

\* The invocations of the interleaved pair that have ended.
FinishedInterleaved ==
  IF parked = <<>> THEN {}
  ELSE {inv \in {running, parked[1]} : inv.pc = "done"}

C15_FinishedBesideSearch ==
  /\ parked # <<>>
  /\ pc = "done" /\ result.status = "returned" /\ dfsCalls >= 2
  /\ machine = history[1].machine
  /\ parked[1].pc = "search" /\ parked[1].stack # <<>> /\ parked[1].best.finite
  /\ parked[1].machine # machine

\* The text of an item stands for an integer (claim side, by the text).
IntegerItems == {"0", "1", "-1"}
IntegerOfItem(text) ==
  CASE text = "0" -> 0
    [] text = "1" -> 1
    [] text = "-1" -> -1

\* The items of a group that are not blank.
RECURSIVE ItemsPresent(_)
ItemsPresent(group) ==
  IF group = <<>> THEN <<>>
  ELSE IF Head(group) = " " THEN ItemsPresent(Tail(group))
       ELSE <<Head(group)>> \o ItemsPresent(Tail(group))

\* Both patterns of the line match, so that it has lights and targets.
LineHasLightsAndTargets(line) == line.indicator # NoMatch /\ line.joltage # NoMatch

LineViolatesCount(line) == Len(ItemsPresent(line.joltage)) # Len(line.indicator)

LineViolatesIndex(line) ==
  \E g \in 1..Len(line.buttons) :
    \E i \in 1..Len(ItemsPresent(line.buttons[g])) :
      LET text == ItemsPresent(line.buttons[g])[i]
      IN \/ text \notin IntegerItems
         \/ IntegerOfItem(text) \notin 0..(Len(line.indicator) - 1)

MachineWellFormed(m) ==
  /\ Len(m.joltageTargets) = m.numLights
  /\ \A b \in 1..Len(m.buttonCounterSets) :
       \A i \in 1..Len(m.buttonCounterSets[b]) :
         LET idx == m.buttonCounterSets[b][i]
         IN /\ ~idx.nan
            /\ idx.tenths % 10 = 0
            /\ (idx.tenths \div 10) \in 0..(m.numLights - 1)

\* C16: every machine parseInput has pushed or returned has as many joltage
\* targets as lights and only integer button indices in 0..numLights-1; and
\* after a line that has another number of targets than lights or an index
\* that is no integer in that range, parsing has failed with an error and
\* holds no machine list.
C16_ParsedMachinesWellFormed ==
  /\ \A k \in 1..Len(parsing.machines) : MachineWellFormed(parsing.machines[k])
  /\ (/\ parsing.lineNumber > 0
      /\ LineHasLightsAndTargets(parsing.line)
      /\ (LineViolatesCount(parsing.line) \/ LineViolatesIndex(parsing.line)))
       => /\ parsing.status = "thrown"
          /\ parsing.error # NoError
          /\ parsing.machines = <<>>

\* The second line has the right number of targets and a negative button
\* index after a first line that was parsed: parsing failed.
C16_Witness ==
  /\ parsing.status = "thrown"
  /\ parsing.lineNumber = 2
  /\ LineHasLightsAndTargets(parsing.line)
  /\ ~LineViolatesCount(parsing.line)
  /\ \E g \in 1..Len(parsing.line.buttons) : parsing.line.buttons[g] = <<"-1">>
  /\ parsing.error = ErrIndexOutOfBounds

\* solve hands the first machine of the list to minPressesForJoltage as soon
\* as bfsMinPresses has found its lights reachable.
FirstMachineReachesSolver ==
  /\ parsing.status = "returned"
  /\ parsing.machines # <<>>
  /\ bfsMinPresses(parsing.machines[1].numLights, parsing.machines[1].buttonMasks,
                   parsing.machines[1].targetMask).finite

IsNonNegativeInteger(n) == ~n.nan /\ n.tenths % 10 = 0 /\ n.tenths >= 0

\* C17: the joltage targets of a machine that parseInput hands to the solver
\* are all non-negative integers.
C17_TargetsNonNegativeIntegers ==
  FirstMachineReachesSolver =>
    \A i \in 1..Len(parsing.machines[1].joltageTargets) :
      IsNonNegativeInteger(parsing.machines[1].joltageTargets[i])

\* Some choice of buttons, each pressed once, turns on the target lights of
\* m and no others.
LightsReachable(m) ==
  \E chosen \in SUBSET (1..Len(m.buttonMasks)) :
    \A light \in 0..(m.numLights - 1) :
      (Cardinality({b \in chosen : light \in m.buttonMasks[b]}) % 2 = 1)
        <=> light \in m.targetMask

RECURSIVE PressesOn(_, _, _, _)
PressesOn(m, presses, c, b) ==
  IF b = 0 THEN 0
  ELSE (IF c \in m.buttonCounterSets[b] THEN presses[b] ELSE 0)
         + PressesOn(m, presses, c, b - 1)

\* Some press counts bring every counter of m to its target.
JoltageReachable(m) ==
  \E presses \in [1..Len(m.buttonCounterSets) -> 0..SolveMaxTarget] :
    \A c \in 1..m.numLights :
      PressesOn(m, presses, c, Len(m.buttonCounterSets)) = m.joltageTargets[c]

MachineFails(m) == ~LightsReachable(m) \/ ~JoltageReachable(m)

SolveEnded == solving.status \in {"returned", "thrown"}

\* C12: when the lights or the joltage targets of any machine of the input
\* cannot be reached, solve ends in a throw, with an error and without part1
\* and part2, however many machines before it were solved.
C12_FailingMachineFailsSolve ==
  (/\ SolveEnded
   /\ \E k \in 1..Len(solving.machines) : MachineFails(solving.machines[k]))
    => /\ solving.status = "thrown"
       /\ "error" \in DOMAIN solving.outcome
       /\ "part1" \notin DOMAIN solving.outcome
       /\ "part2" \notin DOMAIN solving.outcome

\* solve threw at the second machine, whose joltage targets cannot be
\* reached, after it had added the presses of the first to both totals.
C12_Witness ==
  /\ solving.status = "thrown"
  /\ solving.idx = 1
  /\ solving.part1Total > 0
  /\ solving.part2Total > 0
  /\ ~MachineFails(solving.machines[1])
  /\ LightsReachable(solving.machines[2])
  /\ ~JoltageReachable(solving.machines[2])

\* ------------------------------------------------ C21: the suffix bounds
\* The pivot rows have their coefficients and suffix sums, and nothing of the
\* search has been done yet.
Prepared == pc = "prepared"

RECURSIVE DenProduct(_, _)
DenProduct(fractions, i) ==
  IF i = 0 THEN 1 ELSE fractions[i].den * DenProduct(fractions, i - 1)

\* A common denominator of the coefficients of a pivot row, and a rational
\* whose denominator divides it as a count of that unit.
RowScale(row) == DenProduct(row.coeffs, Len(row.coeffs))
Scaled(x, scale) == x.num * (scale \div x.den)

\* The contributions (in units of 1/scale) of the free variables at the
\* positions idx and later, over all their assignments within the bounds.
RECURSIVE SuffixSums(_, _, _)
SuffixSums(row, scale, idx) ==
  IF idx > Len(row.coeffs) THEN {0}
  ELSE {Scaled(row.coeffs[idx], scale) * value + rest :
          value \in 0..freeBounds[idx],
          rest \in SuffixSums(row, scale, idx + 1)}

SuffixBoundsExact(row, idx) ==
  LET scale == RowScale(row)
      sums == SuffixSums(row, scale, idx)
      least == Scaled(row.minSuffix[idx], scale)
      greatest == Scaled(row.maxSuffix[idx], scale)
  IN /\ scale % row.minSuffix[idx].den = 0
     /\ scale % row.maxSuffix[idx].den = 0
     /\ \A sum \in sums : least <= sum /\ sum <= greatest
     /\ least \in sums
     /\ greatest \in sums

\* C21: for every pivot row and every search position, minSuffix and
\* maxSuffix are the least and the greatest contribution the free variables
\* from that position on can make within their bounds (both are attained),
\* and both are zero at position freeCount.
C21_SuffixBoundsExact ==
  Prepared =>
    \A rowIdx \in 1..Len(pivotRows) :
      LET row == pivotRows[rowIdx]
      IN /\ Len(row.minSuffix) = freeCount + 1
         /\ Len(row.maxSuffix) = freeCount + 1
         /\ \A idx \in 1..(freeCount + 1) : SuffixBoundsExact(row, idx)
         /\ row.minSuffix[freeCount + 1] = [num |-> 0, den |-> 1]
         /\ row.maxSuffix[freeCount + 1] = [num |-> 0, den |-> 1]

\* A pivot row with a negative and a positive coefficient on free variables
\* of non-zero bound: its least contribution is below zero, its greatest
\* above, and they change along the positions.
C21_Witness ==
  /\ Prepared
  /\ \E rowIdx \in 1..Len(pivotRows) :
       LET row == pivotRows[rowIdx]
       IN /\ freeCount >= 2
          /\ row.minSuffix[1].num < 0
          /\ row.maxSuffix[1].num > 0
          /\ row.minSuffix[2] # row.minSuffix[1] \/ row.maxSuffix[2] # row.maxSuffix[1]

\* A pivot row with a negative coefficient on a free variable of non-zero
\* bound.
C21_NegativeReached ==
  /\ Prepared
  /\ \E rowIdx \in 1..Len(pivotRows) : pivotRows[rowIdx].minSuffix[1].num < 0

\* ------------------------------------------- C22: the upper bounds
\* computeVariableUpperBounds has run and nothing has used its result yet.
BoundsComputed == pc = "reduced"

\* The valid configurations with press counts up to MaxTarget + 1: a button
\* that affects a counter is pressed at most MaxTarget times in a valid
\* configuration, and the configurations that press a button without
\* counters are in the set as well.
WideValidConfigurations ==
  {presses \in [1..ButtonCount -> 0..(MaxTarget + 1)] : IsValidConfiguration(presses)}

MinimumTotalConfigurations ==
  {presses \in WideValidConfigurations :
     \A other \in WideValidConfigurations : TotalOf(presses) <= TotalOf(other)}

\* C22: every valid configuration of minimum total presses each button at
\* most as often as its upper bound says (the least target among the
\* button's counters, 0 for a button without counters).
C22_BoundsExcludeNoOptimum ==
  BoundsComputed =>
    /\ Len(upperBounds) = ButtonCount
    /\ \A b \in 1..ButtonCount :
         upperBounds[b] = IF buttonSets[b] = {} THEN 0 ELSE LeastTargetOf(b)
    /\ \A presses \in MinimumTotalConfigurations :
         \A b \in 1..ButtonCount : presses[b] <= upperBounds[b]

\* A machine with an optimum that presses a button as often as its bound
\* allows (more than once), while a valid configuration that is not an
\* optimum goes beyond a bound.
C22_Witness ==
  /\ BoundsComputed
  /\ \E presses \in MinimumTotalConfigurations :
       \E b \in 1..ButtonCount : presses[b] = upperBounds[b] /\ presses[b] >= 2
  /\ \E presses \in WideValidConfigurations :
       \E b \in 1..ButtonCount : presses[b] > upperBounds[b]

\* ------------------------------------------------------ C23: rref
\* rref has returned and nothing has been done with its result yet.
RrefReturned == pc = "reduced"

\* The candidate solutions: each button's value is a multiple of 1/2 between
\* -MaxTarget and MaxTarget, held as a count of halves.
HalvesVectors == [1..ButtonCount -> (-2 * MaxTarget)..(2 * MaxTarget)]

\* x solves the system of the input augmented matrix: for every counter the
\* values of the buttons that affect it add up to its target.
SolvesInput(halves) ==
  \A c \in 1..CounterCount :
    SumUpTo([b \in 1..ButtonCount |-> IF c \in buttonSets[b] THEN halves[b] ELSE 0],
            ButtonCount) = 2 * targets[c]

\* x solves the row of the reduced matrix (both sides times the product of
\* the row's denominators).
SolvesReducedRow(rowVec, halves) ==
  LET scale == DenProduct(rowVec, Len(rowVec))
  IN SumUpTo([b \in 1..ButtonCount |-> Scaled(rowVec[b], scale) * halves[b]],
             ButtonCount) = 2 * Scaled(rowVec[ButtonCount + 1], scale)

SolvesReduced(halves) ==
  \A row \in 1..Len(matrix) : SolvesReducedRow(matrix[row], halves)

\* C23: on return from rref every pivot is 1 and alone in its column, the
\* pivot columns increase with the row, a row without pivot has no
\* coefficient left, and the reduced system has the solutions of the input
\* system.
C23_RrefReducedForm ==
  RrefReturned =>
    /\ Len(matrix) = CounterCount
    /\ Len(pivotColumnsByRow) = CounterCount
    /\ \A row \in 1..CounterCount :
         LET col == pivotColumnsByRow[row]
         IN IF col = -1
              THEN \A b \in 1..ButtonCount : matrix[row][b] = [num |-> 0, den |-> 1]
              ELSE /\ col \in 1..ButtonCount
                   /\ matrix[row][col] = [num |-> 1, den |-> 1]
                   /\ \A other \in (1..CounterCount) \ {row} :
                        matrix[other][col] = [num |-> 0, den |-> 1]
                   /\ \A later \in (row + 1)..CounterCount :
                        pivotColumnsByRow[later] # -1 => pivotColumnsByRow[later] > col
    /\ \A halves \in HalvesVectors : SolvesInput(halves) <=> SolvesReduced(halves)

\* rref passed over a column without pivot, eliminated with a negative
\* result, left a row without pivot, and the system has a solution.
C23_Witness ==
  /\ RrefReturned
  /\ \E row \in 1..CounterCount : pivotColumnsByRow[row] = -1
  /\ \E row \in 1..CounterCount : pivotColumnsByRow[row] > row
  /\ \E row \in 1..CounterCount, col \in 1..(ButtonCount + 1) :
       matrix[row][col].num < 0
  /\ \E halves \in HalvesVectors : SolvesReduced(halves) /\ SolvesInput(halves)

\* rref divided by a pivot other than 1 and -1: the only solution of the
\* system is not in integers.
C23_FractionReached ==
  /\ RrefReturned
  /\ \E row \in 1..CounterCount : matrix[row][ButtonCount + 1].den # 1
  /\ \E halves \in HalvesVectors :
       /\ SolvesReduced(halves) /\ SolvesInput(halves)
       /\ \E b \in 1..ButtonCount : halves[b] % 2 # 0

\* ------------------------------------------- C24: no division by zero
\* The Fraction instances the call holds: the cells of the matrix, the fields
\* of the pivot rows and the contributions of the search.
FractionsHeld ==
  {matrix[row][col] : row \in 1..Len(matrix), col \in 1..(ButtonCount + 1)}
    \cup UNION {LET row == pivotRows[i]
                IN {row.rhs, row.minAllowed, row.maxAllowed}
                     \cup {row.coeffs[k] : k \in 1..Len(row.coeffs)}
                     \cup {row.minSuffix[k] : k \in 1..Len(row.minSuffix)}
                     \cup {row.maxSuffix[k] : k \in 1..Len(row.maxSuffix)} :
                i \in 1..Len(pivotRows)}
    \cup {assignedContribution[i] : i \in 1..Len(assignedContribution)}

\* The entry rref divided the pivot row by was not zero: the pivot row of a
\* zero pivot would hold the value of a failed division.
PivotsDivided ==
  \A row \in 1..Len(pivotColumnsByRow) :
    pivotColumnsByRow[row] # -1 => matrix[row][pivotColumnsByRow[row]] # FractionError

\* C24: no division by zero and no zero denominator in the reduction and the
\* search, and the call never fails with an error other than its own.
C24_NoDivisionByZero ==
  /\ PivotsDivided
  /\ \A x \in FractionsHeld : x.den # 0 /\ x # FractionError
  /\ Done /\ result.status = "thrown" =>
       result.error \in {ErrNoButtons, ErrCannotSatisfy, ErrNonInteger,
                         ErrViolatesBounds, ErrFailedToFind}

\* A call ended after a search, for a matrix whose first row had no entry in
\* the first column (rref went on to a later row for the pivot) and whose
\* reduction divided by a pivot other than 1.
C24_Witness ==
  /\ Done
  /\ SearchRan
  /\ 1 \notin buttonSets[1]
  /\ pivotColumnsByRow[1] = 1
  /\ \E x \in FractionsHeld : x.num < 0

\* ------------------------------------------- C25: Fraction instances
\* The Fraction instances of a use of the class.
FractionInstances ==
  {arith.this, arith.other}
    \cup (IF arith.status = "returned" /\ arith.op # "compare"
            THEN {arith.result} ELSE {})

LowestTerms(x) ==
  \A d \in 2..MaxPart * MaxPart * 2 : ~(abs(x.num) % d = 0 /\ x.den % d = 0)

Canonical(x) ==
  /\ x.den > 0
  /\ LowestTerms(x)
  /\ x.num = 0 => x.den = 1

ArithmeticOps == {"new", "fromInt", "add", "sub", "mul", "div", "mulInt"}

\* C25: every Fraction instance has a positive denominator, is in lowest
\* terms and is 0/1 when its value is zero, and an operation leaves its
\* operands as they were.
C25_FractionCanonicalImmutable ==
  [][/\ \A x \in FractionInstances' : Canonical(x)
     /\ arith'.op \in ArithmeticOps \cup {"compare"} =>
          arith'.this = arith.this /\ arith'.other = arith.other]_vars

\* An operation returned an instance that the constructor had to reduce and
\* to give a positive denominator, from operands that are not integers.
C25_Witness ==
  /\ arith.status = "returned"
  /\ arith.op = "div"
  /\ arith.this.den # 1 /\ arith.other.den # 1
  /\ arith.other.num < 0
  /\ arith.result.num # arith.this.num * arith.other.den
  /\ arith.result.den # 1

\* ------------------------------------------- C26: Fraction.compare
RECURSIVE Factorial(_)
Factorial(n) == IF n <= 1 THEN 1 ELSE n * Factorial(n - 1)

\* The value of an operand as a count of 1 / MaxPart!.
InUnits(x) == x.num * (Factorial(MaxPart) \div x.den)

\* C26: compare returns -1, 0 or 1 as the value of this is less than, equal
\* to or greater than the value of other.
C26_CompareOrdersValues ==
  (arith.status = "returned" /\ arith.op = "compare") =>
    arith.comparison =
      (IF InUnits(arith.this) < InUnits(arith.other) THEN -1
       ELSE IF InUnits(arith.this) > InUnits(arith.other) THEN 1 ELSE 0)

\* compare said that a negative fraction is less than another one with a
\* smaller numerator and a different denominator.
C26_Witness ==
  /\ arith.status = "returned"
  /\ arith.op = "compare"
  /\ arith.comparison = -1
  /\ arith.this.num < 0
  /\ arith.this.num > arith.other.num
  /\ arith.this.den # arith.other.den
  /\ arith.other.den # 1

\* ------------------------------------------- C27: zero denominators
\* C27: a constructor call with denominator zero and a division by the zero
\* fraction fail, and produce no Fraction.
C27_ZeroDenominatorFails ==
  /\ (arith.status # "none" /\ arith.op = "new" /\ arith.den = 0) =>
       /\ arith.status = "thrown"
       /\ arith.error = ErrZeroDenominator
       /\ arith.result \notin [num : Int, den : Int \ {0}]
  /\ (arith.status # "none" /\ arith.op = "div" /\ arith.other.num = 0) =>
       /\ arith.status = "thrown"
       /\ arith.error = ErrDivisionByZero
       /\ arith.result \notin [num : Int, den : Int \ {0}]

\* A division of a non-zero fraction by a zero that a subtraction produced
\* has failed.
C27_Witness ==
  /\ arith.status = "thrown"
  /\ arith.op = "div"
  /\ arith.this.num # 0
  /\ arith.other = [num |-> 0, den |-> 1]

\* A constructor call with a non-zero numerator and the denominator zero has
\* failed.
C27_ConstructorReached ==
  /\ arith.status = "thrown"
  /\ arith.op = "new"
  /\ arith.num # 0
  /\ arith.den = 0

\* ------------------------------------------- C28: toNumber after isInteger
\* The step is an iteration of the value loop, which makes the range test.
AtRangeTest ==
  pc = "search" /\ stack # <<>> /\ top.at = "loop" /\ top.value <= top.maxValue

\* The step decides on the branch of a free variable (bound === 0, the
\* budget, the range test) and not on a leaf.
AtBranching == pc = "search" /\ stack # <<>> /\ ~AtLeaf

\* The range test of a pivot row for the value the loop is at, in exact
\* integer arithmetic on a common denominator.
RangeHoldsExactly(row, assigned) ==
  LET scale == RowScale(row) * row.rhs.den
      now == Scaled(assigned, scale)
               + Scaled(row.coeffs[top.index], scale) * top.value
      low == now + Scaled(row.minSuffix[top.index + 1], scale)
      high == now + Scaled(row.maxSuffix[top.index + 1], scale)
  IN /\ high >= Scaled(row.rhs, scale) - scale * upperBounds[row.pivotCol]
     /\ low <= Scaled(row.rhs, scale)

\* C28: toNumber is called only on values that are integers (isInteger has
\* just answered true, and the conversion is exact); a step that decides on
\* a branch of the search calls no toNumber, and the range test decides as
\* the exact comparison of the rationals does.
C28_ConvertsOnlyTestedIntegers ==
  [][/\ \A k \in 1..Len(converted') :
          /\ isInteger(converted'[k])
          /\ converted'[k].den = 1
          /\ toNumber(converted'[k]) = converted'[k].num
     /\ AtBranching => converted' = converted
     /\ AtRangeTest =>
          ((Len(stack') = Len(stack) + 1) <=>
             \A rowIdx \in 1..Len(pivotRows) :
               RangeHoldsExactly(pivotRows[rowIdx], assignedContribution[rowIdx]))]_vars

\* The search is at a leaf with a pivot value that is not an integer, after
\* conversions at earlier leaves and after range tests on a coefficient that
\* is not an integer.
C28_Witness ==
  /\ AtLeaf
  /\ converted # <<>>
  /\ \E rowIdx \in 1..Len(pivotRows) :
       ~isInteger(leafPivotValue(pivotRows[rowIdx], assignedContribution[rowIdx]))
  /\ \E rowIdx \in 1..Len(pivotRows), k \in 1..freeCount :
       pivotRows[rowIdx].coeffs[k].den # 1

\* The branch without free variable converted the right-hand sides of two
\* pivot rows.
C28_UniqueReached ==
  /\ Done
  /\ freeCount = 0
  /\ Len(converted) >= 2

\* ------------------------------------------- C29: the two solvers
\* C29: the number-returning minPressesForJoltage fails exactly when the
\* plan-returning one fails, and otherwise returns its totalPresses.
C29_NumberAgreesWithPlan ==
  twin.status # "none" =>
    /\ Done
    /\ twin.status = "thrown" <=> result.status = "thrown"
    /\ twin.status = "returned" <=> result.status = "returned"
    /\ twin.status = "returned" => twin.value = result.totalPresses

\* Both functions returned the same non-zero total after a search that
\* improved on its first plan.
C29_Witness ==
  /\ twin.status = "returned"
  /\ SearchRan
  /\ twin.value > 0
  /\ twin.value = result.totalPresses
  /\ \E presses \in ValidConfigurations : TotalOf(presses) > twin.value

\* Both functions failed after a search that found no plan.
C29_FailedSearchReached ==
  /\ twin.status = "thrown"
  /\ SearchRan
  /\ twin.error = ErrFailedToFind

\* ------------------------------------------- C30: the replay of a plan
\* buildJoltageFrames has replayed a plan that minPressesForJoltage returned.
PlanReplayed == replay.status = "replayed" /\ result.status = "returned"

ReplayTargets ==
  [c \in 1..Len(replay.machine.joltageTargets) |->
     replay.machine.joltageTargets[c].tenths \div 10]

FramesFollowPlan ==
  /\ Len(replay.frames) = result.totalPresses + 1
  /\ \A k \in 1..Len(replay.frames) :
       \A c \in 1..Len(ReplayTargets) : replay.frames[k].counters[c] <= ReplayTargets[c]
  /\ replay.frames[Len(replay.frames)].counters = ReplayTargets

\* C30: the replay of a returned plan has totalPresses + 1 frames, no
\* counter of a frame is above its target, and the last frame shows the
\* targets.
C30_ReplayReachesTargets == PlanReplayed => FramesFollowPlan

\* Some button group of the line names a counter twice.
ListsCounterTwice ==
  \E b \in 1..Len(replay.machine.buttonCounterSets) :
    LET affected == replay.machine.buttonCounterSets[b]
    IN \E j, k \in 1..Len(affected) : j # k /\ affected[j] = affected[k]

\* The replay follows the plan for every machine none of whose buttons names
\* a counter twice, and the number of frames is right for all machines.
C30_ReplayWithoutRepeatedIndex ==
  PlanReplayed =>
    /\ Len(replay.frames) = result.totalPresses + 1
    /\ ~ListsCounterTwice => FramesFollowPlan

\* A plan with presses was replayed for a machine without a repeated index.
C30_ReplayedReached ==
  /\ PlanReplayed
  /\ ~ListsCounterTwice
  /\ result.totalPresses >= 2

====
